---- MODULE Spec2Model ----
(***************************************************************************)
(* The event-distribution core of septapus (package septapus, bot file):   *)
(* EventDispatcher, Bot.AddServer / GetEventHandler / RemoveEventHandler / *)
(* BroadcastEvent / Disconnect, the protocol callbacks made by makeEvents  *)
(* and the consumers of the subscription channels.                         *)
(*                                                                         *)
(* Every goroutine that calls into the bot is a task.  A call that can     *)
(* block part-way (on a mutex or on a full channel) is split at its        *)
(* blocking points; a critical section that cannot block is one step.      *)
(* A Go panic that nothing recovers ends the process: `crashed` records    *)
(* it and no step is taken afterwards.                                     *)
(***************************************************************************)
EXTENDS Integers, Sequences, FiniteSets, TLC

\* ---- bounds of the model ------------------------------------------------
NumTasks == 2
NumKinds == 2
NumServers == 1
NumRooms == 2
NumRecords == 2
MaxChans == 2
MaxFilters == 2
MaxCalls == 2
MaxInput == 3
MaxRules == 3
MaxSubs == 3
MaxLines == 1

\* make(chan *Event, 10) in EventDispatcher.GetEventHandler
ChanCap == 10

Tasks == 1..NumTasks
Kinds == 1..NumKinds
ServerNames == 1..NumServers
Rooms == 1..NumRooms
\* the *Server values a caller can pass for one id
Records == 1..NumRecords

\* ALL_SERVERS and ALL_ROOMS, "*": a name apart from the servers and the rooms
ALL_SERVERS == NumServers + 1
ALL_ROOMS == NumRooms + 1
ServerKeys == ServerNames \cup {ALL_SERVERS}
RoomKeys == Rooms \cup {ALL_ROOMS}
Chans == 1..(MaxChans + MaxFilters)

\* NewPluginSettings(): four empty maps
NewPluginSettings ==
    [bannedServers |-> {}, bannedRooms |-> [s \in ServerKeys |-> {}],
     forcedServers |-> {}, forcedRooms |-> [s \in ServerKeys |-> {}]]

\* &Event{server, RoomName(line.Target()), line}; id stands for the line and
\* numbers the Broadcast calls in the order they are made
\* self tells whether line.Nick is the nick of the bot
EventBy(id, s, r, own) == [id |-> id, server |-> s, room |-> r, self |-> own]
Event(id, s, r) == EventBy(id, s, r, FALSE)
NoEvent == Event(0, 0, 0)

\* RoomName(line.Target()) of a line whose target is no room: a line of the
\* server itself, or one addressed to a nick
NoRoom == 0

VARIABLES
    servers,    \* Bot.servers: the ids in the map
    conn,       \* Server.Conn of each id: "nil", "connected", "failed", "quit",
                \* "lost"
    removers,   \* Bot.removers: the <<server, kind>> pairs makeEvents registered
    handlers,   \* the callbacks still registered on the connections
    events,     \* Bot.events: the kinds that have an EventDispatcher
    channels,   \* EventDispatcher.channels of each kind
    readers,    \* EventDispatcher.RWMutex: number of read locks held
    botReaders, \* Bot.RWMutex: number of read locks held
    botWriter,  \* Bot.RWMutex: the task holding the write lock, 0 if none
    made,       \* number of channels made so far
    parent,     \* per channel: the channel its filter goroutine reads, 0 if
                \* a dispatcher made it
    stage,      \* per filtered channel: the filter and its arguments
    fph,        \* per filtered channel: where its filter goroutine is
    fev,        \* per filtered channel: the event its goroutine holds
    observed,   \* channels whose consumer has read the closure and left
    closed,     \* per channel: close() has been called on it
    queue,      \* per channel: its buffer
    task,       \* per task: the call it is in and where
    calls,      \* number of Broadcast calls started so far
    removedAt,  \* per channel: the number of Broadcast calls made when
                \* Bot.RemoveEventHandler returned for it, -1 before that
    crashed,    \* "" or the message of the unrecovered panic
    stored,     \* Bot.servers: per id, the *Server the map holds, 0 for nil
    connects,   \* per id: the Connect() calls AddServer has made for it
    ret,        \* the last call of AddServer that returned: the id and the
                \* record it was given, the record and the error it returned
    cp,         \* where the ConnectPlugin goroutine is
    joins,      \* per id: how often ConnectPlugin has run joinAll for it
    welcomed,   \* per id: the client has dispatched CONNECTED for it
    bannedServers, \* PluginSettings.bannedServers: the keys set to true
    bannedRooms,   \* PluginSettings.bannedRooms: per key, the rooms set to true
    forcedServers, \* PluginSettings.forcedServers
    forcedRooms,   \* PluginSettings.forcedRooms
    added,      \* the calls of Add... that have returned
    wph,        \* where the goroutine of PluginSettings.GetEventHandler is
    wev,        \* the event it holds
    fin,        \* the events sent on the channel a filter reads, in order
    fout,       \* the events received from the channel a filter writes
    game,       \* rpg.go: where the goroutine of RPGPlugin.game is, and the
                \* event that made it call quit()
    settingsA,  \* the four maps of a second *PluginSettings, which wraps no
                \* subscription here
    seen,       \* what the condition of that goroutine comes to under the
                \* rules as they were when it read the event it holds and as
                \* every Add... since has left them
    scopedSubs, \* bot.go: the handlers obtained so far, in order: the map and
                \* the keys of the dispatcher of each, and the lines before it
    scopedGot,  \* bot.go: per handler, the lines its consumer has received
    scopedLines, \* bot.go: the lines that have arrived, in order
    scopedDown  \* bot.go: where Disconnect is, whether it has closed the
                \* dispatchers and removed the callbacks, and the line whose
                \* callback waits for bot.RLock(), 0 if none

botVars == <<servers, conn, removers, handlers, events, channels, readers,
             botReaders, botWriter>>

filterVars == <<parent, stage, fph, fev, observed>>

regVars == <<stored, connects, ret>>

plugVars == <<cp, joins, welcomed>>

settings == <<bannedServers, bannedRooms, forcedServers, forcedRooms>>

polVars == <<settings, added, wph, wev, seen, settingsA>>

ioVars == <<fin, fout>>

scopedVars == <<scopedSubs, scopedGot, scopedLines, scopedDown>>

baseVars == <<botVars, filterVars, made, closed, queue, task, calls, removedAt,
              crashed, regVars, plugVars, ioVars, game>>

coreVars == <<baseVars, scopedVars>>

vars == <<coreVars, polVars>>

\* bot.go: Disconnect has not been called
NoDown == [ph |-> "", closed |-> FALSE, removed |-> FALSE, waiting |-> 0]

NoSent == [c \in Chans |-> 0]

NoStage == [filter |-> "", server |-> 0, room |-> 0]

\* no call of AddServer has returned yet
NoRet == [server |-> 0, arg |-> 0, rec |-> 0, err |-> ""]

Idle == [op |-> "idle", ph |-> "", k |-> 0, ch |-> 0, cur |-> 0, todo |-> {},
         ev |-> NoEvent, lk |-> "none", sent |-> NoSent]

Init ==
    /\ servers = {}
    /\ conn = [s \in ServerNames |-> "nil"]
    /\ removers = {}
    /\ handlers = {}
    /\ events = {}
    /\ channels = [k \in Kinds |-> {}]
    /\ readers = [k \in Kinds |-> 0]
    /\ botReaders = 0
    /\ botWriter = 0
    /\ made = 0
    /\ parent = [c \in Chans |-> 0]
    /\ stage = [c \in Chans |-> NoStage]
    /\ fph = [c \in Chans |-> ""]
    /\ fev = [c \in Chans |-> NoEvent]
    /\ observed = {}
    /\ closed = [c \in Chans |-> FALSE]
    /\ queue = [c \in Chans |-> <<>>]
    /\ task = [t \in Tasks |-> Idle]
    /\ calls = 0
    /\ removedAt = [c \in Chans |-> -1]
    /\ crashed = ""
    /\ stored = [s \in ServerNames |-> 0]
    /\ connects = [s \in ServerNames |-> 0]
    /\ ret = NoRet
    /\ cp = ""
    /\ joins = [s \in ServerNames |-> 0]
    /\ welcomed = [s \in ServerNames |-> FALSE]
    /\ bannedServers = {}
    /\ bannedRooms = [s \in ServerKeys |-> {}]
    /\ forcedServers = {}
    /\ forcedRooms = [s \in ServerKeys |-> {}]
    /\ added = {}
    /\ wph = "recv"
    /\ wev = NoEvent
    /\ seen = {}
    /\ settingsA = NewPluginSettings
    /\ game = [ph |-> "", why |-> NoEvent]
    /\ fin = <<>>
    /\ fout = <<>>
    /\ scopedSubs = <<>>
    /\ scopedGot = [c \in 1..MaxSubs |-> <<>>]
    /\ scopedLines = <<>>
    /\ scopedDown = NoDown

Running == crashed = ""

\* sync.RWMutex: Lock waits for the readers and the writer to leave, and a
\* pending Lock keeps new readers out.
LockPending(k) ==
    \E t \in Tasks : /\ task[t].cur = k
                     /\ \/ task[t].op = "remove" /\ task[t].ph = "lock"
                        \/ task[t].op = "disconnect" /\ task[t].ph = "close"
                        \/ task[t].op = "get" /\ task[t].ph = "lock"

CanLock(k) == readers[k] = 0
CanRLock(k) == ~LockPending(k)
BotLockPending ==
    \E t \in Tasks : /\ task[t].op \in {"disconnect", "get"}
                     /\ task[t].ph = "botlock"

BotCanLock == botReaders = 0 /\ botWriter = 0
BotCanRLock == botWriter = 0 /\ ~BotLockPending

\* the next element a `range` over a Go map yields: any one not yet visited
PickNext(set) == IF set = {} THEN {0} ELSE set

With(t, r) == [task EXCEPT ![t] = r]

\* the channels made by a dispatcher, and those made by a filter
Raw == {c \in 1..made : parent[c] = 0}
Filtered == {c \in 1..made : parent[c] # 0}

\* the channels no filter goroutine reads: a plugin task reads them
Leaf(c) == \A d \in Filtered : parent[d] # c

\* ---- EventDispatcher.Broadcast -------------------------------------------
\* e.RLock(); the range over e.channels starts
BroadcastRLock(t) ==
    /\ Running
    /\ task[t].op = "broadcast" /\ task[t].ph = "rlock"
    /\ CanRLock(task[t].k)
    /\ readers' = [readers EXCEPT ![task[t].k] = @ + 1]
    /\ \E c \in PickNext(channels[task[t].k]) :
          task' = With(t, [task[t] EXCEPT
                      !.ph = IF c = 0 THEN "ret" ELSE "send",
                      !.cur = c,
                      !.todo = channels[task[t].k] \ {c}])
    /\ UNCHANGED <<game, scopedVars, ioVars, polVars, plugVars, regVars, filterVars, servers, conn, removers, handlers, events, channels,
                   botReaders, botWriter, made, closed, queue, calls, removedAt,
                   crashed>>

\* BroadcastSend that leaves the range after its first send
BroadcastSendFirstOnly(t) ==
    /\ Running
    /\ task[t].op = "broadcast" /\ task[t].ph = "send"
    /\ ~closed[task[t].cur]
    /\ Len(queue[task[t].cur]) < ChanCap
    /\ queue' = [queue EXCEPT ![task[t].cur] = Append(@, task[t].ev)]
    /\ task' = With(t, [task[t] EXCEPT
                    !.ph = "ret", !.cur = 0, !.todo = {},
                    !.sent = [@ EXCEPT ![task[t].cur] = @ + 1]])
    /\ UNCHANGED <<game, scopedVars, ioVars, polVars, plugVars, regVars, filterVars, servers, conn, removers, handlers, events, channels, readers,
                   botReaders, botWriter, made, closed, calls, removedAt, crashed>>

\* channel <- event, on an open channel with room in its buffer
BroadcastSend(t) ==
    /\ Running
    /\ task[t].op = "broadcast" /\ task[t].ph = "send"
    /\ ~closed[task[t].cur]
    /\ Len(queue[task[t].cur]) < ChanCap
    /\ queue' = [queue EXCEPT ![task[t].cur] = Append(@, task[t].ev)]
    /\ \E c \in PickNext(task[t].todo) :
          task' = With(t, [task[t] EXCEPT
                      !.ph = IF c = 0 THEN "ret" ELSE "send",
                      !.cur = c,
                      !.todo = task[t].todo \ {c},
                      !.sent = [@ EXCEPT ![task[t].cur] = @ + 1]])
    /\ UNCHANGED <<game, scopedVars, ioVars, polVars, plugVars, regVars, filterVars, servers, conn, removers, handlers, events, channels, readers,
                   botReaders, botWriter, made, closed, calls, removedAt, crashed>>

\* channel <- event, on a closed channel: panic
BroadcastSendClosed(t) ==
    /\ Running
    /\ task[t].op = "broadcast" /\ task[t].ph = "send"
    /\ closed[task[t].cur]
    /\ crashed' = "send on closed channel"
    /\ UNCHANGED <<game, scopedVars, ioVars, polVars, plugVars, regVars, filterVars, servers, conn, removers, handlers, events, channels, readers,
                   botReaders, botWriter, made, closed, queue, task, calls,
                   removedAt>>

\* the deferred e.RUnlock(), and BroadcastEvent's deferred bot.RUnlock()
BroadcastReturn(t) ==
    /\ Running
    /\ task[t].op = "broadcast" /\ task[t].ph = "ret"
    /\ readers' = [readers EXCEPT ![task[t].k] = @ - 1]
    /\ botReaders' = IF task[t].lk = "r" THEN botReaders - 1 ELSE botReaders
    /\ task' = With(t, Idle)
    /\ UNCHANGED <<game, scopedVars, ioVars, polVars, plugVars, regVars, filterVars, servers, conn, removers, handlers, events, channels,
                   botWriter, made, closed, queue, calls, removedAt, crashed>>

\* ---- the callback makeEvents registers -----------------------------------
\* a line of kind k with target r arrives on server s and the client calls the
\* handler; at most max Broadcast calls are started in a run
CallbackUpTo(t, s, k, r, max) ==
    /\ Running
    /\ task[t].op = "idle"
    /\ calls < max
    /\ <<s, k>> \in handlers
    /\ conn[s] = "connected"
    /\ calls' = calls + 1
    /\ task' = With(t, [Idle EXCEPT !.op = "broadcast", !.ph = "rlock",
                                    !.k = k, !.ev = Event(calls + 1, s, r)])
    /\ UNCHANGED <<game, scopedVars, ioVars, polVars, plugVars, regVars, filterVars, servers, conn, removers, handlers, events, channels, readers,
                   botReaders, botWriter, made, closed, queue, removedAt, crashed>>

Callback(t, s, k, r) == CallbackUpTo(t, s, k, r, MaxCalls)

\* ---- Bot.BroadcastEvent ---------------------------------------------------
BroadcastEventUpTo(t, name, s, r, max) ==
    /\ Running
    /\ task[t].op = "idle"
    /\ calls < max
    /\ BotCanRLock
    /\ IF name \in events
       THEN /\ botReaders' = botReaders + 1
            /\ calls' = calls + 1
            /\ task' = With(t, [Idle EXCEPT !.op = "broadcast", !.ph = "rlock",
                                            !.k = name, !.lk = "r",
                                            !.ev = Event(calls + 1, s, r)])
       ELSE UNCHANGED <<plugVars, regVars, filterVars, botReaders, calls, task>>
    /\ UNCHANGED <<game, scopedVars, ioVars, polVars, plugVars, regVars, filterVars, servers, conn, removers, handlers, events, channels, readers,
                   botWriter, made, closed, queue, removedAt, crashed>>

BroadcastEvent(t, name, s, r) == BroadcastEventUpTo(t, name, s, r, MaxCalls)

\* ---- Bot.makeEvents -------------------------------------------------------
\* the pairs for which server.Conn.HandleFunc registers a callback
makeEvents(ss, ks) == ss \X ks

\* ---- Bot.GetEventHandler --------------------------------------------------
\* GetEventHandler that creates the dispatcher and wires no server to it
GetEventHandlerUnwired(t, k) ==
    /\ Running
    /\ task[t].op = "idle"
    /\ Cardinality(Raw) < MaxChans
    /\ BotCanLock
    /\ botWriter' = t
    /\ events' = events \cup {k}
    /\ UNCHANGED <<game, scopedVars, ioVars, polVars, removers, handlers>>
    /\ task' = With(t, [Idle EXCEPT !.op = "get", !.ph = "lock", !.k = k,
                                    !.cur = k, !.lk = "w"])
    /\ UNCHANGED <<game, scopedVars, ioVars, polVars, plugVars, regVars, filterVars, servers, conn, channels, readers, botReaders, made, closed,
                   queue, calls, removedAt, crashed>>

\* GetEventHandler that makes a new dispatcher on every request
GetEventHandlerReplace(t, k) ==
    /\ Running
    /\ task[t].op = "idle"
    /\ Cardinality(Raw) < MaxChans
    /\ BotCanLock
    /\ botWriter' = t
    /\ events' = events \cup {k}
    /\ channels' = [channels EXCEPT ![k] = {}]
    /\ removers' = removers \cup makeEvents(servers, {k})
    /\ handlers' = handlers \cup makeEvents(servers, {k})
    /\ task' = With(t, [Idle EXCEPT !.op = "get", !.ph = "lock", !.k = k,
                                    !.cur = k, !.lk = "w"])
    /\ UNCHANGED <<game, scopedVars, ioVars, polVars, plugVars, regVars, filterVars, servers, conn, readers, botReaders, made, closed,
                   queue, calls, removedAt, crashed>>

\* bot.Lock(), the dispatcher is created and wired if it is the first of its kind
GetEventHandler(t, k) ==
    /\ Running
    /\ task[t].op = "idle"
    /\ Cardinality(Raw) < MaxChans
    /\ BotCanLock
    /\ botWriter' = t
    /\ events' = events \cup {k}
    /\ IF k \in events
       THEN UNCHANGED <<removers, handlers>>
       ELSE /\ removers' = removers \cup makeEvents(servers, {k})
            /\ handlers' = handlers \cup makeEvents(servers, {k})
    /\ task' = With(t, [Idle EXCEPT !.op = "get", !.ph = "lock", !.k = k,
                                    !.cur = k, !.lk = "w"])
    /\ UNCHANGED <<game, scopedVars, ioVars, polVars, plugVars, regVars, filterVars, servers, conn, channels, readers, botReaders, made, closed,
                   queue, calls, removedAt, crashed>>

\* the call of GetEventHandler, which then waits for bot.Lock()
GetEventHandlerCall(t, k) ==
    /\ Running
    /\ task[t].op = "idle"
    /\ Cardinality(Raw) < MaxChans
    /\ task' = With(t, [Idle EXCEPT !.op = "get", !.ph = "botlock", !.k = k])
    /\ UNCHANGED <<game, scopedVars, ioVars, polVars, plugVars, regVars, filterVars, servers, conn, removers, handlers, events, channels, readers,
                   botReaders, botWriter, made, closed, queue, calls, removedAt, crashed>>

\* bot.Lock() of a call that waited for it, and the dispatcher is created and
\* wired if it is the first of its kind
GetEventHandlerLock(t) ==
    /\ Running
    /\ task[t].op = "get" /\ task[t].ph = "botlock"
    /\ BotCanLock
    /\ botWriter' = t
    /\ events' = events \cup {task[t].k}
    /\ IF task[t].k \in events
       THEN UNCHANGED <<removers, handlers>>
       ELSE /\ removers' = removers \cup makeEvents(servers, {task[t].k})
            /\ handlers' = handlers \cup makeEvents(servers, {task[t].k})
    /\ task' = With(t, [task[t] EXCEPT !.ph = "lock", !.cur = task[t].k,
                                       !.lk = "w"])
    /\ UNCHANGED <<game, scopedVars, ioVars, polVars, plugVars, regVars, filterVars, servers, conn, channels, readers, botReaders, made, closed,
                   queue, calls, removedAt, crashed>>

\* EventDispatcher.GetEventHandler, then the deferred bot.Unlock()
DispatcherGetEventHandler(t) ==
    /\ Running
    /\ task[t].op = "get" /\ task[t].ph = "lock"
    /\ CanLock(task[t].k)
    /\ made' = made + 1
    /\ channels' = [channels EXCEPT ![task[t].k] = @ \cup {made + 1}]
    /\ botWriter' = 0
    /\ task' = With(t, Idle)
    /\ UNCHANGED <<game, scopedVars, ioVars, polVars, plugVars, regVars, filterVars, servers, conn, removers, handlers, events, readers,
                   botReaders, closed, queue, calls, removedAt, crashed>>

\* ---- Bot.RemoveEventHandler -----------------------------------------------
\* bot.RLock(); the range over bot.events starts
RemoveEventHandler(t, s) ==
    /\ Running
    /\ task[t].op = "idle"
    /\ s \in 1..made
    /\ removedAt[s] = -1
    /\ \A u \in Tasks : ~(task[u].op = "remove" /\ task[u].ch = s)
    /\ BotCanRLock
    /\ botReaders' = botReaders + 1
    /\ \E d \in PickNext(events) :
          task' = With(t, [Idle EXCEPT !.op = "remove",
                      !.ph = IF d = 0 THEN "ret" ELSE "lock",
                      !.ch = s, !.cur = d, !.todo = events \ {d},
                      !.lk = "r"])
    /\ UNCHANGED <<game, scopedVars, ioVars, polVars, plugVars, regVars, filterVars, servers, conn, removers, handlers, events, channels, readers,
                   botWriter, made, closed, queue, calls, removedAt, crashed>>

\* EventDispatcher.RemoveEventHandler that closes the channel and keeps it
DispatcherRemoveEventHandlerNoDelete(t) ==
    /\ Running
    /\ task[t].op = "remove" /\ task[t].ph = "lock"
    /\ CanLock(task[t].cur)
    /\ ~closed[task[t].ch]
    /\ closed' = [closed EXCEPT ![task[t].ch] = TRUE]
    /\ \E d \in PickNext(task[t].todo) :
          task' = With(t, [task[t] EXCEPT
                      !.ph = IF d = 0 THEN "ret" ELSE "lock",
                      !.cur = d, !.todo = task[t].todo \ {d}])
    /\ UNCHANGED <<game, scopedVars, ioVars, polVars, plugVars, regVars, filterVars, servers, conn, removers, handlers, events, channels, readers,
                   botReaders, botWriter, made, queue, calls, removedAt, crashed>>

\* EventDispatcher.RemoveEventHandler that empties the set of the dispatcher
DispatcherRemoveEventHandlerAll(t) ==
    /\ Running
    /\ task[t].op = "remove" /\ task[t].ph = "lock"
    /\ CanLock(task[t].cur)
    /\ ~closed[task[t].ch]
    /\ closed' = [closed EXCEPT ![task[t].ch] = TRUE]
    /\ channels' = [channels EXCEPT ![task[t].cur] = {}]
    /\ \E d \in PickNext(task[t].todo) :
          task' = With(t, [task[t] EXCEPT
                      !.ph = IF d = 0 THEN "ret" ELSE "lock",
                      !.cur = d, !.todo = task[t].todo \ {d}])
    /\ UNCHANGED <<game, scopedVars, ioVars, polVars, plugVars, regVars, filterVars, servers, conn, removers, handlers, events, readers,
                   botReaders, botWriter, made, queue, calls, removedAt, crashed>>

\* EventDispatcher.RemoveEventHandler on the next dispatcher: close, delete
DispatcherRemoveEventHandler(t) ==
    /\ Running
    /\ task[t].op = "remove" /\ task[t].ph = "lock"
    /\ CanLock(task[t].cur)
    /\ ~closed[task[t].ch]
    /\ closed' = [closed EXCEPT ![task[t].ch] = TRUE]
    /\ channels' = [channels EXCEPT ![task[t].cur] = @ \ {task[t].ch}]
    /\ \E d \in PickNext(task[t].todo) :
          task' = With(t, [task[t] EXCEPT
                      !.ph = IF d = 0 THEN "ret" ELSE "lock",
                      !.cur = d, !.todo = task[t].todo \ {d}])
    /\ UNCHANGED <<game, scopedVars, ioVars, polVars, plugVars, regVars, filterVars, servers, conn, removers, handlers, events, readers,
                   botReaders, botWriter, made, queue, calls, removedAt, crashed>>

\* close(channel) on a channel that is already closed: panic
DispatcherRemoveEventHandlerPanic(t) ==
    /\ Running
    /\ task[t].op = "remove" /\ task[t].ph = "lock"
    /\ CanLock(task[t].cur)
    /\ closed[task[t].ch]
    /\ crashed' = "close of closed channel"
    /\ UNCHANGED <<game, scopedVars, ioVars, polVars, plugVars, regVars, filterVars, servers, conn, removers, handlers, events, channels, readers,
                   botReaders, botWriter, made, closed, queue, task, calls,
                   removedAt>>

\* the deferred bot.RUnlock()
RemoveEventHandlerReturn(t) ==
    /\ Running
    /\ task[t].op = "remove" /\ task[t].ph = "ret"
    /\ botReaders' = botReaders - 1
    /\ removedAt' = [removedAt EXCEPT ![task[t].ch] = calls]
    /\ task' = With(t, Idle)
    /\ UNCHANGED <<game, scopedVars, ioVars, polVars, plugVars, regVars, filterVars, servers, conn, removers, handlers, events, channels, readers,
                   botWriter, made, closed, queue, calls, crashed>>

\* ---- Bot.AddServer --------------------------------------------------------
\* AddServer that stores and connects the record it is given whether or not the
\* id is already in the map
AddServerAgain(t, s, rec, ok) ==
    /\ Running
    /\ task[t].op = "idle"
    /\ BotCanLock
    /\ s \in servers \/ events = {}
    /\ servers' = servers \cup {s}
    /\ stored' = [stored EXCEPT ![s] = rec]
    /\ conn' = [conn EXCEPT ![s] = IF ok THEN "connected" ELSE "failed"]
    /\ connects' = [connects EXCEPT ![s] = @ + 1]
    /\ ret' = [server |-> s, arg |-> rec, rec |-> rec,
               err |-> IF ok THEN "nil" ELSE "connect"]
    /\ UNCHANGED <<game, scopedVars, ioVars, polVars, plugVars, filterVars, removers, handlers, events, channels,
                   readers, botReaders, botWriter, made, closed, queue, task,
                   calls, removedAt, crashed>>

\* server is the record rec with Name s.  The id is in the map: the stored
\* record is returned with a nil error.  Otherwise, with no dispatcher to
\* wire: the record is stored, the client made and Connect() called, whose
\* error is returned with the record.
AddServer(t, s, rec, ok) ==
    /\ Running
    /\ task[t].op = "idle"
    /\ BotCanLock
    /\ s \in servers \/ events = {}
    /\ IF s \in servers
       THEN /\ ret' = [server |-> s, arg |-> rec, rec |-> stored[s],
                       err |-> "nil"]
            /\ UNCHANGED <<servers, stored, conn, connects>>
       ELSE /\ servers' = servers \cup {s}
            /\ stored' = [stored EXCEPT ![s] = rec]
            /\ conn' = [conn EXCEPT ![s] = IF ok THEN "connected" ELSE "failed"]
            /\ connects' = [connects EXCEPT ![s] = @ + 1]
            /\ ret' = [server |-> s, arg |-> rec, rec |-> rec,
                       err |-> IF ok THEN "nil" ELSE "connect"]
    /\ UNCHANGED <<game, scopedVars, ioVars, polVars, plugVars, filterVars, removers, handlers, events, channels,
                   readers, botReaders, botWriter, made, closed, queue, task,
                   calls, removedAt, crashed>>

\* a dispatcher exists: makeEvents calls server.Conn.HandleFunc while
\* server.Conn is still nil (it is set after the loop): nil dereference
AddServerPanic(t, s, rec) ==
    /\ Running
    /\ task[t].op = "idle"
    /\ BotCanLock
    /\ s \notin servers
    /\ events # {}
    /\ servers' = servers \cup {s}
    /\ stored' = [stored EXCEPT ![s] = rec]
    /\ crashed' = "nil pointer dereference"
    /\ UNCHANGED <<game, scopedVars, ioVars, polVars, plugVars, connects, ret, filterVars, conn, removers, handlers,
                   events, channels, readers, botReaders, botWriter, made,
                   closed, queue, task, calls, removedAt>>

\* ---- Bot.Disconnect -------------------------------------------------------
DisconnectCall(t) ==
    /\ Running
    /\ task[t].op = "idle"
    /\ \A u \in Tasks : task[u].op # "disconnect"
    /\ task' = With(t, [Idle EXCEPT !.op = "disconnect", !.ph = "botlock"])
    /\ UNCHANGED <<game, scopedVars, ioVars, polVars, plugVars, regVars, filterVars, servers, conn, removers, handlers, events, channels, readers,
                   botReaders, botWriter, made, closed, queue, calls, removedAt,
                   crashed>>

\* bot.Lock()
DisconnectLock(t) ==
    /\ Running
    /\ task[t].op = "disconnect" /\ task[t].ph = "botlock"
    /\ BotCanLock
    /\ botWriter' = t
    /\ task' = With(t, [task[t] EXCEPT !.ph = "remove", !.lk = "w"])
    /\ UNCHANGED <<game, scopedVars, ioVars, polVars, plugVars, regVars, filterVars, servers, conn, removers, handlers, events, channels, readers,
                   botReaders, made, closed, queue, calls, removedAt, crashed>>

\* Disconnect that goes on to close the dispatchers with the callbacks in place
DisconnectRemoveLater(t) ==
    /\ Running
    /\ task[t].op = "disconnect" /\ task[t].ph = "remove"
    /\ \E d \in PickNext(events) :
          task' = With(t, [task[t] EXCEPT
                      !.ph = IF d = 0 THEN "quit" ELSE "close",
                      !.cur = d, !.todo = events \ {d}])
    /\ UNCHANGED <<game, scopedVars, ioVars, polVars, plugVars, regVars, filterVars, servers, conn, removers, handlers, events, channels, readers,
                   botReaders, botWriter, made, closed, queue, calls, removedAt,
                   crashed>>

\* remover.Remove() for every remover; the range over bot.events starts
DisconnectRemove(t) ==
    /\ Running
    /\ task[t].op = "disconnect" /\ task[t].ph = "remove"
    /\ handlers' = handlers \ removers
    /\ \E d \in PickNext(events) :
          task' = With(t, [task[t] EXCEPT
                      !.ph = IF d = 0 THEN "quit" ELSE "close",
                      !.cur = d, !.todo = events \ {d}])
    /\ UNCHANGED <<game, scopedVars, ioVars, polVars, plugVars, regVars, filterVars, servers, conn, removers, events, channels, readers,
                   botReaders, botWriter, made, closed, queue, calls, removedAt,
                   crashed>>

\* EventDispatcher.Close: closes every channel of the set, deletes none
Close(cl, set) == [c \in Chans |-> cl[c] \/ c \in set]

\* events.Close() on the next dispatcher
DisconnectClose(t) ==
    /\ Running
    /\ task[t].op = "disconnect" /\ task[t].ph = "close"
    /\ CanLock(task[t].cur)
    /\ \A c \in channels[task[t].cur] : ~closed[c]
    /\ closed' = Close(closed, channels[task[t].cur])
    /\ \E d \in PickNext(task[t].todo) :
          task' = With(t, [task[t] EXCEPT
                      !.ph = IF d = 0 THEN "quit" ELSE "close",
                      !.cur = d, !.todo = task[t].todo \ {d}])
    /\ UNCHANGED <<game, scopedVars, ioVars, polVars, plugVars, regVars, filterVars, servers, conn, removers, handlers, events, channels, readers,
                   botReaders, botWriter, made, queue, calls, removedAt, crashed>>

\* events.Close() meets a channel that is already closed: panic
DisconnectClosePanic(t) ==
    /\ Running
    /\ task[t].op = "disconnect" /\ task[t].ph = "close"
    /\ CanLock(task[t].cur)
    /\ \E c \in channels[task[t].cur] : closed[c]
    /\ crashed' = "close of closed channel"
    /\ UNCHANGED <<game, scopedVars, ioVars, polVars, plugVars, regVars, filterVars, servers, conn, removers, handlers, events, channels, readers,
                   botReaders, botWriter, made, closed, queue, task, calls,
                   removedAt>>

\* server.Conn.Quit() for every server
DisconnectQuit(t) ==
    /\ Running
    /\ task[t].op = "disconnect" /\ task[t].ph = "quit"
    /\ conn' = [s \in ServerNames |->
                  IF s \in servers /\ conn[s] \in {"connected", "lost"}
                  THEN "quit" ELSE conn[s]]
    /\ task' = With(t, [task[t] EXCEPT !.ph = "wait", !.cur = 0])
    /\ UNCHANGED <<game, scopedVars, ioVars, polVars, plugVars, regVars, filterVars, servers, removers, handlers, events, channels, readers,
                   botReaders, botWriter, made, closed, queue, calls, removedAt,
                   crashed>>

\* <-time.After(500 * time.Millisecond), then the deferred bot.Unlock()
DisconnectReturn(t) ==
    /\ Running
    /\ task[t].op = "disconnect" /\ task[t].ph = "wait"
    /\ botWriter' = 0
    /\ task' = With(t, Idle)
    /\ UNCHANGED <<game, scopedVars, ioVars, polVars, plugVars, regVars, filterVars, servers, conn, removers, handlers, events, channels, readers,
                   botReaders, made, closed, queue, calls, removedAt, crashed>>

\* ---- FilterServer, FilterRoom ---------------------------------------------
\* FilterRoom's condition without the room
PassesAnyRoom(st, e) == e.server = st.server

\* the conditions with FilterSelfRoom's lacking the nick
PassesAnyNick(st, e) ==
    CASE st.filter = "FilterSelf" -> e.self
      [] st.filter = "FilterServer" -> e.server = st.server
      [] st.filter = "FilterRoom" ->
            e.server = st.server /\ e.room = st.room
      [] st.filter = "FilterSelfRoom" ->
            e.server = st.server /\ e.room = st.room

\* the condition under which the goroutine forwards the event
Passes(st, e) ==
    CASE st.filter = "FilterSelf" -> e.self
      [] st.filter = "FilterServer" -> e.server = st.server
      [] st.filter = "FilterRoom" ->
            e.server = st.server /\ e.room = st.room
      [] st.filter = "FilterSelfRoom" ->
            e.self /\ e.server = st.server /\ e.room = st.room

\* filteredchannel := make(chan *Event, cap(channel)); go func() {...}()
Filter(c, f, s, r) ==
    /\ Running
    /\ c \in 1..made
    /\ Leaf(c) /\ c \notin observed
    /\ Cardinality(Filtered) < MaxFilters
    /\ made' = made + 1
    /\ parent' = [parent EXCEPT ![made + 1] = c]
    /\ stage' = [stage EXCEPT ![made + 1] =
                    [filter |-> f,
                     server |-> IF f = "FilterSelf" THEN 0 ELSE s,
                     room |-> IF f \in {"FilterRoom", "FilterSelfRoom"}
                              THEN r ELSE 0]]
    /\ fph' = [fph EXCEPT ![made + 1] = "recv"]
    /\ UNCHANGED <<game, scopedVars, ioVars, polVars, plugVars, regVars, botVars, fev, observed, closed, queue, task, calls,
                   removedAt, crashed>>

\* event, ok := <-channel with ok true; the event is kept if it passes
FilterReceive(c) ==
    /\ Running
    /\ c \in Filtered /\ fph[c] = "recv"
    /\ queue[parent[c]] # <<>>
    /\ queue' = [queue EXCEPT ![parent[c]] = Tail(@)]
    /\ IF Passes(stage[c], Head(queue[parent[c]]))
       THEN /\ fph' = [fph EXCEPT ![c] = "send"]
            /\ fev' = [fev EXCEPT ![c] = Head(queue[parent[c]])]
       ELSE UNCHANGED <<fph, fev>>
    /\ UNCHANGED <<game, scopedVars, ioVars, polVars, plugVars, regVars, botVars, parent, stage, observed, made, closed, task, calls,
                   removedAt, crashed>>

\* a send that does not wait for room in the buffer
FilterSendUnbounded(c) ==
    /\ Running
    /\ c \in Filtered /\ fph[c] = "send"
    /\ ~closed[c]
    /\ queue' = [queue EXCEPT ![c] = Append(@, fev[c])]
    /\ fph' = [fph EXCEPT ![c] = "recv"]
    /\ fev' = [fev EXCEPT ![c] = NoEvent]
    /\ UNCHANGED <<game, scopedVars, ioVars, polVars, plugVars, regVars, botVars, parent, stage, observed, made, closed, task, calls,
                   removedAt, crashed>>

\* filteredchannel <- event
FilterSend(c) ==
    /\ Running
    /\ c \in Filtered /\ fph[c] = "send"
    /\ ~closed[c]
    /\ Len(queue[c]) < ChanCap
    /\ queue' = [queue EXCEPT ![c] = Append(@, fev[c])]
    /\ fph' = [fph EXCEPT ![c] = "recv"]
    /\ fev' = [fev EXCEPT ![c] = NoEvent]
    /\ UNCHANGED <<game, scopedVars, ioVars, polVars, plugVars, regVars, botVars, parent, stage, observed, made, closed, task, calls,
                   removedAt, crashed>>

\* filteredchannel <- event, on a channel that has been closed: panic
FilterSendClosed(c) ==
    /\ Running
    /\ c \in Filtered /\ fph[c] = "send"
    /\ closed[c]
    /\ crashed' = "send on closed channel"
    /\ UNCHANGED <<game, scopedVars, ioVars, polVars, plugVars, regVars, botVars, filterVars, made, closed, queue, task,
                   calls, removedAt>>

\* event, ok := <-channel with ok false: return, and the deferred
\* close(filteredchannel) on a channel that has been closed: panic
FilterClosePanic(c) ==
    /\ Running
    /\ c \in Filtered /\ fph[c] = "recv"
    /\ queue[parent[c]] = <<>> /\ closed[parent[c]]
    /\ closed[c]
    /\ crashed' = "close of closed channel"
    /\ UNCHANGED <<game, scopedVars, ioVars, polVars, plugVars, regVars, botVars, filterVars, made, closed, queue, task,
                   calls, removedAt>>

\* a goroutine that closes its channel as soon as the one it reads is closed
FilterCloseEarly(c) ==
    /\ Running
    /\ c \in Filtered /\ fph[c] = "recv"
    /\ closed[parent[c]]
    /\ ~closed[c]
    /\ closed' = [closed EXCEPT ![c] = TRUE]
    /\ fph' = [fph EXCEPT ![c] = "done"]
    /\ UNCHANGED <<game, scopedVars, ioVars, polVars, plugVars, regVars, botVars, parent, stage, fev, observed, made, queue, task,
                   calls, removedAt, crashed>>

\* event, ok := <-channel with ok false: return, and the deferred
\* close(filteredchannel)
FilterClose(c) ==
    /\ Running
    /\ c \in Filtered /\ fph[c] = "recv"
    /\ queue[parent[c]] = <<>> /\ closed[parent[c]]
    /\ ~closed[c]
    /\ closed' = [closed EXCEPT ![c] = TRUE]
    /\ fph' = [fph EXCEPT ![c] = "done"]
    /\ UNCHANGED <<game, scopedVars, ioVars, polVars, plugVars, regVars, botVars, parent, stage, fev, observed, made, queue, task,
                   calls, removedAt, crashed>>

\* ---- the consumer of a subscription ---------------------------------------
\* event, ok := <-channel, with an event in the buffer
Receive(c) ==
    /\ Running
    /\ c \in 1..made
    /\ Leaf(c) /\ c \notin observed
    /\ queue[c] # <<>>
    /\ queue' = [queue EXCEPT ![c] = Tail(@)]
    /\ UNCHANGED <<game, scopedVars, ioVars, polVars, plugVars, regVars, botVars, filterVars, made, closed, task, calls, removedAt,
                   crashed>>

\* event, ok := <-channel with ok false: the plugin task leaves its loop
ReceiveClosed(c) ==
    /\ Running
    /\ c \in 1..made
    /\ Leaf(c) /\ c \notin observed
    /\ queue[c] = <<>> /\ closed[c]
    /\ observed' = observed \cup {c}
    /\ UNCHANGED <<game, scopedVars, ioVars, polVars, plugVars, regVars, botVars, parent, stage, fph, fev, made, closed, queue, task,
                   calls, removedAt, crashed>>

\* ---- ConnectPlugin ---------------------------------------------------------
\* client.CONNECTED, the kind of event ConnectPlugin subscribes to
CONNECTED == 1

\* Bot.AddPlugin(NewSimplePlugin(ConnectPlugin, nil)): go plugin.Init(b)
AddPlugin(t) ==
    /\ Running
    /\ task[t].op = "idle"
    /\ BotCanLock
    /\ cp = ""
    /\ cp' = "scan"
    /\ UNCHANGED <<game, scopedVars, ioVars, polVars, joins, welcomed, regVars, botVars, filterVars, made, closed,
                   queue, task, calls, removedAt, crashed>>

\* the range over bot.servers: joinAll for every server whose client says
\* Connected()
ConnectPluginScan ==
    /\ Running
    /\ cp = "scan"
    /\ joins' = [s \in ServerNames |->
                   IF s \in servers /\ conn[s] = "connected"
                   THEN joins[s] + 1 ELSE joins[s]]
    /\ cp' = "handle"
    /\ UNCHANGED <<game, scopedVars, ioVars, polVars, welcomed, regVars, botVars, filterVars, made, closed, queue,
                   task, calls, removedAt, crashed>>

\* what the unlocked range over bot.servers can meet when it runs inside a call
\* of AddServer: the map being written, or the record stored with its Conn
\* still nil
RaceOutcomes == {"concurrent map read and map write",
                 "nil pointer dereference in ConnectPlugin"}

ConnectPluginRace(t, s, rec) ==
    /\ Running
    /\ cp = "scan"
    /\ task[t].op = "idle"
    /\ BotCanLock
    /\ s \notin servers
    /\ servers' = servers \cup {s}
    /\ stored' = [stored EXCEPT ![s] = rec]
    /\ crashed' \in RaceOutcomes
    /\ UNCHANGED <<game, scopedVars, ioVars, polVars, plugVars, connects, ret, filterVars, conn, removers, handlers,
                   events, channels, readers, botReaders, botWriter, made,
                   closed, queue, task, calls, removedAt>>

\* event, ok := <-channel with ok true; joinAll(event.Server)
ConnectPluginReceive(c) ==
    /\ Running
    /\ cp = "handle"
    /\ c \in channels[CONNECTED]
    /\ queue[c] # <<>>
    /\ queue' = [queue EXCEPT ![c] = Tail(@)]
    /\ joins' = [joins EXCEPT ![Head(queue[c]).server] = @ + 1]
    /\ UNCHANGED <<game, scopedVars, ioVars, polVars, cp, welcomed, regVars, botVars, filterVars, made, closed,
                   task, calls, removedAt, crashed>>

\* event, ok := <-channel with ok false: break
ConnectPluginBreak(c) ==
    /\ Running
    /\ cp = "handle"
    /\ c \in channels[CONNECTED]
    /\ queue[c] = <<>> /\ closed[c]
    /\ cp' = "done"
    /\ UNCHANGED <<game, scopedVars, ioVars, polVars, joins, welcomed, regVars, botVars, filterVars, made, closed,
                   queue, task, calls, removedAt, crashed>>

\* ---- DisconnectPlugin ------------------------------------------------------
\* client.DISCONNECTED, the kind of event DisconnectPlugin subscribes to
DISCONNECTED == 2

\* the connection of server s breaks and the client dispatches DISCONNECTED:
\* the callback of makeEvents runs
ConnectionLost(t, s) ==
    /\ Running
    /\ task[t].op = "idle"
    /\ calls < MaxCalls
    /\ <<s, DISCONNECTED>> \in handlers
    /\ conn[s] = "connected"
    /\ conn' = [conn EXCEPT ![s] = "lost"]
    /\ calls' = calls + 1
    /\ task' = With(t, [Idle EXCEPT !.op = "broadcast", !.ph = "rlock",
                                    !.k = DISCONNECTED,
                                    !.ev = Event(calls + 1, s, 0)])
    /\ UNCHANGED <<game, scopedVars, ioVars, polVars, plugVars, regVars, filterVars, servers, removers, handlers, events, channels, readers,
                   botReaders, botWriter, made, closed, queue, removedAt, crashed>>

\* event, ok := <-channel with ok true; event.Server.Conn.Connect(), which
\* succeeds or not
DisconnectPluginReceive(c, ok) ==
    /\ Running
    /\ c \in channels[DISCONNECTED] /\ c \notin observed
    /\ queue[c] # <<>>
    /\ queue' = [queue EXCEPT ![c] = Tail(@)]
    /\ conn' = [conn EXCEPT ![Head(queue[c]).server] =
                    IF ok THEN "connected" ELSE "failed"]
    /\ connects' = [connects EXCEPT ![Head(queue[c]).server] = @ + 1]
    /\ UNCHANGED <<game, scopedVars, ioVars, polVars, plugVars, stored, ret, filterVars, servers, removers, handlers, events, channels, readers,
                   botReaders, botWriter, made, closed, task, calls, removedAt, crashed>>

\* event, ok := <-channel with ok false: break
DisconnectPluginBreak(c) ==
    /\ Running
    /\ c \in channels[DISCONNECTED] /\ c \notin observed
    /\ queue[c] = <<>> /\ closed[c]
    /\ observed' = observed \cup {c}
    /\ UNCHANGED <<game, scopedVars, ioVars, polVars, plugVars, regVars, botVars, parent, stage, fph, fev, made, closed, queue, task,
                   calls, removedAt, crashed>>

\* ---- RPGPlugin.game (rpg.go) --------------------------------------------------
\* client.PART, the kind of event of the second subscription of the game
PART == 1

\* the servers whose lines arrive; the game is that of room 1 of server 1
GameServers == {1, 2}

\* the channels of the game in the order it makes them:
\* bot.GetEventHandler(client.DISCONNECTED), bot.GetEventHandler(client.PART)
\* and FilterSelfRoom of the latter
disconnectchan == 1
partsub == 2
partchan == 3

\* RPGPlugin.Init has received the join of the bot: go rpg.game(bot, server, room)
GameStart ==
    /\ Running
    /\ game.ph = ""
    /\ game' = [game EXCEPT !.ph = "setup"]
    /\ UNCHANGED <<botVars, filterVars, made, closed, queue, task, calls,
                   removedAt, crashed, regVars, plugVars, ioVars, scopedVars,
                   polVars>>

\* the subscriptions and filters are made; the select loop starts
GameLoop ==
    /\ Running
    /\ game.ph = "setup" /\ made = partchan
    /\ game' = [game EXCEPT !.ph = "loop"]
    /\ UNCHANGED <<botVars, filterVars, made, closed, queue, task, calls,
                   removedAt, crashed, regVars, plugVars, ioVars, scopedVars,
                   polVars>>

\* case _, ok := <-disconnectchan, or case _, ok := <-partchan, with ok
\* true: quit()
GameReceive(c) ==
    /\ Running
    /\ game.ph = "loop"
    /\ c \in {disconnectchan, partchan}
    /\ queue[c] # <<>>
    /\ queue' = [queue EXCEPT ![c] = Tail(@)]
    /\ game' = [ph |-> "quit", why |-> Head(queue[c])]
    /\ UNCHANGED <<botVars, filterVars, made, closed, task, calls,
                   removedAt, crashed, regVars, plugVars, ioVars, scopedVars,
                   polVars>>

\* a line of kind k arrives on server s, with target r and from the bot itself
\* or not, and the client calls the callback makeEvents registered for the
\* dispatcher of k
GameLine(t, s, k, r, own) ==
    /\ Running
    /\ task[t].op = "idle"
    /\ calls < MaxCalls
    /\ k \in events
    /\ calls' = calls + 1
    /\ task' = With(t, [Idle EXCEPT !.op = "broadcast", !.ph = "rlock",
                                    !.k = k,
                                    !.ev = EventBy(calls + 1, s, r, own)])
    /\ UNCHANGED <<botVars, filterVars, made, closed, queue, removedAt,
                   crashed, regVars, plugVars, ioVars, scopedVars, polVars,
                   game>>

\* the server's welcome arrives on an established connection and the client
\* dispatches CONNECTED: the callback of makeEvents runs if it is registered by
\* then, and the event has no taker if it is not
Welcome(t, s) ==
    /\ Running
    /\ task[t].op = "idle"
    /\ conn[s] = "connected"
    /\ ~welcomed[s]
    /\ welcomed' = [welcomed EXCEPT ![s] = TRUE]
    /\ IF <<s, CONNECTED>> \in handlers
       THEN /\ calls' = calls + 1
            /\ task' = With(t, [Idle EXCEPT !.op = "broadcast", !.ph = "rlock",
                                            !.k = CONNECTED,
                                            !.ev = Event(calls + 1, s, 0)])
       ELSE UNCHANGED <<calls, task>>
    /\ UNCHANGED <<game, scopedVars, ioVars, polVars, cp, joins, regVars, botVars, filterVars, made, closed, queue,
                   removedAt, crashed>>

\* ---- PluginSettings ---------------------------------------------------------
\* the maps of ps after ps.Add...(server, room)
Put(ps, op, server, room) ==
    CASE op = "AddBannedServer" ->
            [ps EXCEPT !.bannedServers = @ \cup {server}]
      [] op = "AddBannedRoom" ->
            [ps EXCEPT !.bannedRooms[server] = @ \cup {room}]
      [] op = "AddForcedServer" ->
            [ps EXCEPT !.forcedServers = @ \cup {server}]
      [] op = "AddForcedRoom" ->
            [ps EXCEPT !.forcedRooms[server] = @ \cup {room}]

\* the four maps of the *PluginSettings that wraps the subscription
ThisSettings ==
    [bannedServers |-> bannedServers, bannedRooms |-> bannedRooms,
     forcedServers |-> forcedServers, forcedRooms |-> forcedRooms]

\* Add... on a *PluginSettings that shares its maps with the one that wraps
\* the subscription
AddOtherShared(op, server, room) ==
    /\ Running
    /\ bannedServers' = Put(ThisSettings, op, server, room).bannedServers
    /\ bannedRooms' = Put(ThisSettings, op, server, room).bannedRooms
    /\ forcedServers' = Put(ThisSettings, op, server, room).forcedServers
    /\ forcedRooms' = Put(ThisSettings, op, server, room).forcedRooms
    /\ settingsA' = Put(settingsA, op, server, room)
    /\ UNCHANGED <<coreVars, added, wph, wev, seen>>

\* Add... on the second *PluginSettings: ps.Lock(), the insert into the map of
\* ps, ps.Unlock()
AddOther(op, server, room) ==
    /\ Running
    /\ settingsA' = Put(settingsA, op, server, room)
    /\ UNCHANGED <<coreVars, settings, added, wph, wev, seen>>

IsBannedServer(server) ==
    ALL_SERVERS \in bannedServers \/ server \in bannedServers

isBannedRoom(server, room) == room \in bannedRooms[server]

\* IsBannedRoom that knows no wildcard
IsBannedRoomExact(server, room) == isBannedRoom(server, room)

IsBannedRoom(server, room) ==
    \/ isBannedRoom(ALL_SERVERS, ALL_ROOMS)
    \/ isBannedRoom(ALL_SERVERS, room)
    \/ isBannedRoom(server, ALL_ROOMS)
    \/ isBannedRoom(server, room)

\* IsForcedServer that knows no wildcard
IsForcedServerExact(server) == server \in forcedServers

IsForcedServer(server) ==
    ALL_SERVERS \in forcedServers \/ server \in forcedServers

isForcedRoom(server, room) == room \in forcedRooms[server]

IsForcedRoom(server, room) ==
    \/ isForcedRoom(ALL_SERVERS, ALL_ROOMS)
    \/ isForcedRoom(ALL_SERVERS, room)
    \/ isForcedRoom(server, ALL_ROOMS)
    \/ isForcedRoom(server, room)

\* the condition of the goroutine of PluginSettings.GetEventHandler, taken
\* on one state of the rules
Condition(server, room) ==
    \/ IsForcedServer(server) \/ IsForcedRoom(server, room)
    \/ ~(IsBannedServer(server) \/ IsBannedRoom(server, room))

\* a call of Add... has returned, one of at most MaxRules: the rules it leaves
\* are current from now on, also for the event the goroutine holds
Committed(call) ==
    /\ Cardinality(added) < MaxRules
    /\ added' = added \cup {call}
    /\ UNCHANGED <<coreVars, settingsA, wph, wev>>
    /\ seen' = IF wph = "recv" THEN seen
               ELSE seen \cup {Condition(wev.server, wev.room)'}

AddBannedServer(server) ==
    /\ Running
    /\ bannedServers' = bannedServers \cup {server}
    /\ UNCHANGED <<bannedRooms, forcedServers, forcedRooms>>
    /\ Committed([op |-> "AddBannedServer", server |-> server, room |-> 0])

AddBannedRoom(server, room) ==
    /\ Running
    /\ bannedRooms' = [bannedRooms EXCEPT ![server] = @ \cup {room}]
    /\ UNCHANGED <<bannedServers, forcedServers, forcedRooms>>
    /\ Committed([op |-> "AddBannedRoom", server |-> server, room |-> room])

AddForcedServer(server) ==
    /\ Running
    /\ forcedServers' = forcedServers \cup {server}
    /\ UNCHANGED <<bannedServers, bannedRooms, forcedRooms>>
    /\ Committed([op |-> "AddForcedServer", server |-> server, room |-> 0])

AddForcedRoom(server, room) ==
    /\ Running
    /\ forcedRooms' = [forcedRooms EXCEPT ![server] = @ \cup {room}]
    /\ UNCHANGED <<bannedServers, bannedRooms, forcedServers>>
    /\ Committed([op |-> "AddForcedRoom", server |-> server, room |-> room])

\* ---- the goroutine of PluginSettings.GetEventHandler -------------------------
\* event, ok := <-channel with ok true: an event of server s and room r
WrapperReceive(s, r) ==
    /\ Running
    /\ wph = "recv"
    /\ wev' = Event(1, s, r)
    /\ wph' = "IsForcedServer"
    /\ seen' = {Condition(s, r)}
    /\ UNCHANGED <<coreVars, settingsA, settings, added>>

\* the condition is taken left to right, one locked call after the other,
\* and as far as it takes to settle it
WrapperIsForcedServer ==
    /\ Running
    /\ wph = "IsForcedServer"
    /\ wph' = IF IsForcedServer(wev.server) THEN "send" ELSE "IsForcedRoom"
    /\ UNCHANGED <<coreVars, settingsA, settings, added, wev, seen>>

\* the condition without its IsForcedRoom
WrapperSkipsForcedRoom ==
    /\ Running
    /\ wph = "IsForcedRoom"
    /\ wph' = "IsBannedServer"
    /\ UNCHANGED <<coreVars, settingsA, settings, added, wev, seen>>

WrapperIsForcedRoom ==
    /\ Running
    /\ wph = "IsForcedRoom"
    /\ wph' = IF IsForcedRoom(wev.server, wev.room)
              THEN "send" ELSE "IsBannedServer"
    /\ UNCHANGED <<coreVars, settingsA, settings, added, wev, seen>>

WrapperIsBannedServer ==
    /\ Running
    /\ wph = "IsBannedServer"
    /\ wph' = IF IsBannedServer(wev.server) THEN "drop" ELSE "IsBannedRoom"
    /\ UNCHANGED <<coreVars, settingsA, settings, added, wev, seen>>

\* the condition without its IsBannedRoom
WrapperSkipsBannedRoom ==
    /\ Running
    /\ wph = "IsBannedRoom"
    /\ wph' = "send"
    /\ UNCHANGED <<coreVars, settingsA, settings, added, wev, seen>>

WrapperIsBannedRoom ==
    /\ Running
    /\ wph = "IsBannedRoom"
    /\ wph' = IF IsBannedRoom(wev.server, wev.room) THEN "drop" ELSE "send"
    /\ UNCHANGED <<coreVars, settingsA, settings, added, wev, seen>>

\* filteredchannel <- event
WrapperSend ==
    /\ Running
    /\ wph = "send"
    /\ wph' = "recv" /\ wev' = NoEvent /\ seen' = {}
    /\ UNCHANGED <<coreVars, settingsA, settings, added>>

\* the condition is false: the loop goes on to the next event
WrapperSkip ==
    /\ Running
    /\ wph = "drop"
    /\ wph' = "recv" /\ wev' = NoEvent /\ seen' = {}
    /\ UNCHANGED <<coreVars, settingsA, settings, added>>

\* ---- the two ends of a filter -------------------------------------------------
\* the servers and rooms of the events a filter is given to choose from
FilterServers == {1, 2}
FilterRooms == {1, 2}

\* channel <- event, by the producer of the channel a filter reads, which
\* sends max events at most
FeedLine(c, s, r, own, max) ==
    /\ Running
    /\ c \in Raw
    /\ ~closed[c]
    /\ Len(queue[c]) < ChanCap
    /\ Len(fin) < max
    /\ queue' = [queue EXCEPT ![c] = Append(@, EventBy(Len(fin) + 1, s, r, own))]
    /\ fin' = Append(fin, EventBy(Len(fin) + 1, s, r, own))
    /\ UNCHANGED <<game, scopedVars, fout, polVars, plugVars, regVars, botVars, filterVars, made,
                   closed, task, calls, removedAt, crashed>>

FeedUpTo(c, s, r, max) == FeedLine(c, s, r, FALSE, max)

Feed(c, s, r) == FeedUpTo(c, s, r, MaxInput)

\* event, ok := <-filteredchannel with ok true, by the plugin that called
\* the filter
Collect(c) ==
    /\ Running
    /\ c \in Filtered
    /\ Leaf(c) /\ c \notin observed
    /\ queue[c] # <<>>
    /\ queue' = [queue EXCEPT ![c] = Tail(@)]
    /\ fout' = Append(fout, Head(queue[c]))
    /\ UNCHANGED <<game, scopedVars, fin, polVars, plugVars, regVars, botVars, filterVars, made,
                   closed, task, calls, removedAt, crashed>>

Next ==
    \/ \E t \in Tasks : BroadcastRLock(t)
    \/ \E t \in Tasks : BroadcastSend(t)
    \/ \E t \in Tasks : BroadcastSendClosed(t)
    \/ \E t \in Tasks : BroadcastReturn(t)
    \/ \E t \in Tasks, s \in ServerNames, k \in Kinds, r \in Rooms :
          Callback(t, s, k, r)
    \/ \E t \in Tasks, k \in Kinds, s \in ServerNames, r \in Rooms :
          BroadcastEvent(t, k, s, r)
    \/ \E t \in Tasks, k \in Kinds : GetEventHandler(t, k)
    \/ \E t \in Tasks : DispatcherGetEventHandler(t)
    \/ \E t \in Tasks, s \in Chans : RemoveEventHandler(t, s)
    \/ \E t \in Tasks : DispatcherRemoveEventHandler(t)
    \/ \E t \in Tasks : DispatcherRemoveEventHandlerPanic(t)
    \/ \E t \in Tasks : RemoveEventHandlerReturn(t)
    \/ \E t \in Tasks, s \in ServerNames, ok \in BOOLEAN : AddServer(t, s, 1, ok)
    \/ \E t \in Tasks, s \in ServerNames : AddServerPanic(t, s, 1)
    \/ \E t \in Tasks : DisconnectCall(t)
    \/ \E t \in Tasks : DisconnectLock(t)
    \/ \E t \in Tasks : DisconnectRemove(t)
    \/ \E t \in Tasks : DisconnectClose(t)
    \/ \E t \in Tasks : DisconnectClosePanic(t)
    \/ \E t \in Tasks : DisconnectQuit(t)
    \/ \E t \in Tasks : DisconnectReturn(t)
    \/ \E c \in Chans : Receive(c)

Spec == Init /\ [][Next]_vars

\* ---- the bot with a dispatcher per server and per room (bot.go) ---------------
\* the servers, rooms and kinds of the lines; both servers have been added
ScopedServers == {1, 2}
ScopedRooms == {1}
ScopedKinds == {1, 2}
AllServers == 3
AllRooms == 3

\* the dispatcher a handler was obtained from
Key(sub) == [map |-> sub.map, server |-> sub.server, room |-> sub.room,
             kind |-> sub.kind]

\* EventDispatcher.channels of the dispatcher with this key: the first n
\* handlers that AddHandler appended to it, in that order
RECURSIVE Appended(_, _)
Appended(key, n) ==
    IF n = 0 THEN <<>>
    ELSE IF Key(scopedSubs[n]) = key
         THEN Append(Appended(key, n - 1), n)
         ELSE Appended(key, n - 1)

\* bot.serverEventDispatchers[server][event].channels, empty for nil
serverEventDispatchers(server, event) ==
    Appended([map |-> "server", server |-> server, room |-> 0,
              kind |-> event], Len(scopedSubs))

\* bot.roomEventDispatchers[server][room][event].channels, empty for nil
roomEventDispatchers(server, room, event) ==
    Appended([map |-> "room", server |-> server, room |-> room,
              kind |-> event], Len(scopedSubs))

\* a callback that broadcasts to the handlers of all servers twice
DispatcherTwice(st, l) ==
    CASE st = 1 -> serverEventDispatchers(AllServers, l.kind)
      [] st = 2 -> serverEventDispatchers(l.server, l.kind)
                   \o serverEventDispatchers(AllServers, l.kind)
      [] st = 3 -> roomEventDispatchers(l.server, l.room, l.kind)
      [] st = 4 -> roomEventDispatchers(AllServers, l.room, l.kind)
      [] st = 5 -> roomEventDispatchers(AllServers, AllRooms, l.kind)

\* the channels of the dispatcher that the callback of a line broadcasts to
\* in its first, second, ... fifth if
Dispatcher(st, l) ==
    CASE st = 1 -> serverEventDispatchers(AllServers, l.kind)
      [] st = 2 -> serverEventDispatchers(l.server, l.kind)
      [] st = 3 -> roomEventDispatchers(l.server, l.room, l.kind)
      [] st = 4 -> roomEventDispatchers(AllServers, l.room, l.kind)
      [] st = 5 -> roomEventDispatchers(AllServers, AllRooms, l.kind)

\* bot.Lock(); the dispatcher is made if there is none, and AddHandler appends
\* a new channel to it
GetServerEventHandler(server, event) ==
    /\ Running
    /\ scopedDown.ph \in {"", "done"}
    /\ Len(scopedSubs) < MaxSubs
    /\ scopedSubs' = Append(scopedSubs,
                        [map |-> "server", server |-> server, room |-> 0,
                         kind |-> event, since |-> Len(scopedLines)])
    /\ UNCHANGED <<baseVars, polVars, scopedGot, scopedLines, scopedDown>>

GetRoomEventHandler(server, room, event) ==
    /\ Running
    /\ scopedDown.ph \in {"", "done"}
    /\ Len(scopedSubs) < MaxSubs
    /\ scopedSubs' = Append(scopedSubs,
                        [map |-> "room", server |-> server, room |-> room,
                         kind |-> event, since |-> Len(scopedLines)])
    /\ UNCHANGED <<baseVars, polVars, scopedGot, scopedLines, scopedDown>>

\* return bot.GetRoomEventHandler(server, AllRooms, event)
GetAllRoomsEventHandler(server, event) ==
    GetRoomEventHandler(server, AllRooms, event)

\* EventDispatcher.Broadcast of line j: channel <- event for the channels d of
\* the dispatcher, in order; a channel has no buffer, so the send is the
\* receive of its consumer
RECURSIVE ScopedBroadcast(_, _, _)
ScopedBroadcast(got, d, j) ==
    IF d = <<>> THEN got
    ELSE ScopedBroadcast([got EXCEPT ![Head(d)] = Append(@, j)], Tail(d), j)

\* the ifs of the callback from the st-th on, for line j
RECURSIVE Ifs(_, _, _, _)
Ifs(got, st, l, j) ==
    IF st > 5 THEN got
    ELSE Ifs(ScopedBroadcast(got, Dispatcher(st, l), j), st + 1, l, j)

\* a line of kind k with target r arrives on server s: the client calls the
\* handler AddServer registered, which runs under bot.RLock()
ScopedCallback(s, k, r) ==
    /\ Running
    /\ scopedDown.ph = ""
    /\ Len(scopedLines) < MaxLines
    /\ scopedLines' = Append(scopedLines,
                            [server |-> s, kind |-> k, room |-> r])
    /\ scopedGot' = Ifs(scopedGot, 1, [server |-> s, kind |-> k, room |-> r],
                        Len(scopedLines) + 1)
    /\ UNCHANGED <<baseVars, polVars, scopedSubs, scopedDown>>

\* ---- Bot.Disconnect (bot.go) -----------------------------------------------
\* bot.Lock()
ScopedDisconnectLock ==
    /\ Running
    /\ scopedDown.ph = ""
    /\ scopedDown' = [scopedDown EXCEPT !.ph = "close"]
    /\ UNCHANGED <<baseVars, polVars, scopedSubs, scopedGot, scopedLines>>

\* events.Close() for every dispatcher of the two maps
ScopedDisconnectClose ==
    /\ Running
    /\ scopedDown.ph = "close"
    /\ scopedDown' = [scopedDown EXCEPT !.ph = "remove", !.closed = TRUE]
    /\ UNCHANGED <<baseVars, polVars, scopedSubs, scopedGot, scopedLines>>

\* remover.Remove() for every callback
ScopedDisconnectRemove ==
    /\ Running
    /\ scopedDown.ph = "remove"
    /\ scopedDown' = [scopedDown EXCEPT !.ph = "quit", !.removed = TRUE]
    /\ UNCHANGED <<baseVars, polVars, scopedSubs, scopedGot, scopedLines>>

\* server.Conn.Quit() for every server, the wait of a second and the deferred
\* bot.Unlock()
ScopedDisconnectReturn ==
    /\ Running
    /\ scopedDown.ph = "quit"
    /\ scopedDown' = [scopedDown EXCEPT !.ph = "done"]
    /\ UNCHANGED <<baseVars, polVars, scopedSubs, scopedGot, scopedLines>>

\* a line arrives while Disconnect holds the lock and the callback is still
\* registered: the client calls the handler, which waits in bot.RLock()
ScopedArrive(s, k, r) ==
    /\ Running
    /\ scopedDown.ph \in {"close", "remove"}
    /\ ~scopedDown.removed /\ scopedDown.waiting = 0
    /\ Len(scopedLines) < MaxLines
    /\ scopedLines' = Append(scopedLines,
                            [server |-> s, kind |-> k, room |-> r])
    /\ scopedDown' = [scopedDown EXCEPT !.waiting = Len(scopedLines) + 1]
    /\ UNCHANGED <<baseVars, polVars, scopedSubs, scopedGot>>

\* the channels the callback of a line sends to, in order
Targets(l) ==
    Dispatcher(1, l) \o Dispatcher(2, l) \o Dispatcher(3, l)
        \o Dispatcher(4, l) \o Dispatcher(5, l)

\* the handler that waited gets bot.RLock() after Disconnect has returned: its
\* first channel <- event is on a channel Close has closed, a panic; with no
\* channel to send to it returns
ScopedResume ==
    /\ Running
    /\ scopedDown.ph = "done" /\ scopedDown.waiting # 0
    /\ IF Targets(scopedLines[scopedDown.waiting]) # <<>>
       THEN /\ crashed' = "send on closed channel"
            /\ UNCHANGED scopedDown
       ELSE /\ scopedDown' = [scopedDown EXCEPT !.waiting = 0]
            /\ UNCHANGED crashed
    /\ UNCHANGED <<botVars, filterVars, made, closed, queue, task, calls,
                   removedAt, regVars, plugVars, ioVars, polVars, scopedSubs,
                   scopedGot, scopedLines, game>>

\* ---- a consumer stalls ------------------------------------------------------
\* One kind of event, whose subscribers have stopped reading.  Task 1 is a
\* plugin that calls BroadcastEvent as often as it takes to fill a subscription
\* queue; task 2 is the main goroutine, which subscribes and then disconnects.
NextStall ==
    \/ GetEventHandler(2, 1)
    \/ \E t \in Tasks : DispatcherGetEventHandler(t)
    \/ BroadcastEventUpTo(1, 1, 1, 1, ChanCap + 1)
    \/ \E t \in Tasks : BroadcastRLock(t)
    \/ \E t \in Tasks : BroadcastSend(t)
    \/ \E t \in Tasks : BroadcastSendClosed(t)
    \/ \E t \in Tasks : BroadcastReturn(t)
    \/ DisconnectCall(2) /\ \A c \in Chans : ~closed[c]
    \/ \E t \in Tasks : DisconnectLock(t)
    \/ \E t \in Tasks : DisconnectRemove(t)
    \/ \E t \in Tasks : DisconnectClose(t)
    \/ \E t \in Tasks : DisconnectQuit(t)
    \/ \E t \in Tasks : DisconnectReturn(t)

\* a call that has begun takes its next step as soon as it can and the
\* scheduler runs every goroutine that can run
Step(t) ==
    \/ BroadcastRLock(t) \/ BroadcastSend(t) \/ BroadcastSendClosed(t)
    \/ BroadcastReturn(t)
    \/ DispatcherGetEventHandler(t)
    \/ DisconnectLock(t) \/ DisconnectRemove(t) \/ DisconnectClose(t)
    \/ DisconnectQuit(t) \/ DisconnectReturn(t)

StallSpec ==
    Init /\ [][NextStall]_vars /\ \A t \in Tasks : WF_vars(Step(t))

\* ---- shutdown with filters in place ------------------------------------------
\* Task 2 is the main goroutine: it adds the server, subscribes and disconnects
\* once.  Task 1 runs the callbacks of the server.  Plugins put filters on
\* their subscriptions and read them to the end.
FilterNames == {"FilterServer", "FilterRoom"}

NextCascade ==
    \/ \E s \in ServerNames : AddServer(2, s, 1, TRUE)
    \/ GetEventHandler(2, 1)
    \/ \E t \in Tasks : DispatcherGetEventHandler(t)
    \/ \E s \in ServerNames, r \in Rooms : Callback(1, s, 1, r)
    \/ \E t \in Tasks : BroadcastRLock(t)
    \/ \E t \in Tasks : BroadcastSend(t)
    \/ \E t \in Tasks : BroadcastSendClosed(t)
    \/ \E t \in Tasks : BroadcastReturn(t)
    \/ DisconnectCall(2) /\ \A c \in Chans : ~closed[c]
    \/ \E t \in Tasks : DisconnectLock(t)
    \/ \E t \in Tasks : DisconnectRemove(t)
    \/ \E t \in Tasks : DisconnectClose(t)
    \/ \E t \in Tasks : DisconnectQuit(t)
    \/ \E t \in Tasks : DisconnectReturn(t)
    \/ \E c \in Chans, f \in FilterNames, s \in ServerNames, r \in Rooms :
          Filter(c, f, s, r)
    \/ \E c \in Chans : FilterReceive(c)
    \/ \E c \in Chans : FilterSend(c)
    \/ \E c \in Chans : FilterClose(c)
    \/ \E c \in Chans : Receive(c)
    \/ \E c \in Chans : ReceiveClosed(c)

\* the forwarding goroutine of a filtered channel, and the consumer of a channel
Forward(c) == FilterReceive(c) \/ FilterSend(c) \/ FilterClose(c)
Consume(c) == Receive(c) \/ ReceiveClosed(c)

\* every goroutine that can run is run, and every consumer keeps reading
CascadeSpec ==
    /\ Init /\ [][NextCascade]_vars
    /\ \A t \in Tasks : WF_vars(Step(t))
    /\ \A c \in Chans : WF_vars(Forward(c)) /\ WF_vars(Consume(c))

\* ---- ConnectPlugin and a server ----------------------------------------------
\* Task 1 is the goroutine AddPlugin starts for ConnectPlugin.  Task 2 is the
\* main goroutine, which adds the plugin and the server in either order and
\* disconnects.  The client runs the CONNECTED callback in a goroutine of its
\* own, for which either task stands while it is in no call of its own.
NextJoin ==
    \/ AddPlugin(2)
    \/ ConnectPluginScan
    \/ \E s \in ServerNames, rec \in Records : ConnectPluginRace(2, s, rec)
    \/ cp = "handle" /\ CONNECTED \notin events /\ GetEventHandler(1, CONNECTED)
    \/ DispatcherGetEventHandler(1)
    \/ \E c \in Chans : ConnectPluginReceive(c)
    \/ \E c \in Chans : ConnectPluginBreak(c)
    \/ \E s \in ServerNames, rec \in Records, ok \in BOOLEAN :
          AddServer(2, s, rec, ok)
    \/ \E s \in ServerNames, rec \in Records : AddServerPanic(2, s, rec)
    \/ \E t \in Tasks, s \in ServerNames : Welcome(t, s)
    \/ \E t \in Tasks : BroadcastRLock(t)
    \/ \E t \in Tasks : BroadcastSend(t)
    \/ \E t \in Tasks : BroadcastSendClosed(t)
    \/ \E t \in Tasks : BroadcastReturn(t)
    \/ DisconnectCall(2)
    \/ \E t \in Tasks : DisconnectLock(t)
    \/ \E t \in Tasks : DisconnectRemove(t)
    \/ \E t \in Tasks : DisconnectClose(t)
    \/ \E t \in Tasks : DisconnectQuit(t)
    \/ \E t \in Tasks : DisconnectReturn(t)

JoinSpec == Init /\ [][NextJoin]_vars

\* ---- rules and the events they are applied to -------------------------------
\* the steps of the goroutine that applies the rules
Wrapper ==
    \/ \E s \in ServerNames, r \in Rooms \cup {NoRoom} : WrapperReceive(s, r)
    \/ WrapperIsForcedServer
    \/ WrapperIsForcedRoom
    \/ WrapperIsBannedServer
    \/ WrapperIsBannedRoom
    \/ WrapperSend
    \/ WrapperSkip

\* rules are added between two events
NextPolicy ==
    \/ \E s \in ServerKeys : wph = "recv" /\ AddBannedServer(s)
    \/ \E s \in ServerKeys, r \in RoomKeys : wph = "recv" /\ AddBannedRoom(s, r)
    \/ \E s \in ServerKeys : wph = "recv" /\ AddForcedServer(s)
    \/ \E s \in ServerKeys, r \in RoomKeys : wph = "recv" /\ AddForcedRoom(s, r)
    \/ Wrapper

PolicySpec == Init /\ [][NextPolicy]_vars

\* ---- two PluginSettings ------------------------------------------------------------
\* One plugin adds rules to the settings that wrap the subscription, between
\* two events; another adds rules to settings of its own at any time.
NextIsolation ==
    \/ \E s \in ServerNames : wph = "recv" /\ AddBannedServer(s)
    \/ \E s \in ServerNames, r \in Rooms : wph = "recv" /\ AddForcedRoom(s, r)
    \/ \E op \in {"AddBannedServer", "AddForcedServer"}, s \in ServerNames :
          AddOther(op, s, 0)
    \/ \E op \in {"AddBannedRoom", "AddForcedRoom"} : AddOther(op, 1, 1)
    \/ Wrapper

IsolationSpec == Init /\ [][NextIsolation]_vars

\* rules for a server and for a room of a server are added at any time, by
\* goroutines of their own
NextMutate ==
    \/ \E s \in ServerNames : AddBannedServer(s)
    \/ \E s \in ServerNames, r \in Rooms : AddBannedRoom(s, r)
    \/ \E s \in ServerNames : AddForcedServer(s)
    \/ \E s \in ServerNames, r \in Rooms : AddForcedRoom(s, r)
    \/ Wrapper

MutateSpec == Init /\ [][NextMutate]_vars

\* ---- one FilterRoom on one subscription ----------------------------------------
\* Task 2 subscribes and, in the end, unsubscribes, which closes the channel.
\* A plugin puts FilterRoom on the subscription and reads what it lets through.
NextFilter ==
    \/ made = 0 /\ GetEventHandler(2, 1)
    \/ DispatcherGetEventHandler(2)
    \/ \E s \in FilterServers, r \in FilterRooms :
          Filtered = {} /\ Filter(1, "FilterRoom", s, r)
    \/ \E s \in FilterServers, r \in FilterRooms : Feed(1, s, r)
    \/ RemoveEventHandler(2, 1)
    \/ DispatcherRemoveEventHandler(2)
    \/ RemoveEventHandlerReturn(2)
    \/ \E c \in Chans : FilterReceive(c)
    \/ \E c \in Chans : FilterSend(c)
    \/ \E c \in Chans : FilterClose(c)
    \/ \E c \in Chans : Collect(c)
    \/ \E c \in Chans : ReceiveClosed(c)

FilterSpec == Init /\ [][NextFilter]_vars

\* ---- a filter whose output nobody has to read ----------------------------------
\* Task 2 subscribes and, in the end, unsubscribes, which closes the channel.
\* A plugin puts FilterRoom on the subscription; every event is one the filter
\* lets through, and there is one more of them than the two queues hold.  The
\* plugin reads the filtered channel when it likes, and may stop.
NextDrain ==
    \/ made = 0 /\ GetEventHandler(2, 1)
    \/ DispatcherGetEventHandler(2)
    \/ Filtered = {} /\ Filter(1, "FilterRoom", 1, 1)
    \/ FeedUpTo(1, 1, 1, 2 * ChanCap + 1)
    \/ RemoveEventHandler(2, 1)
    \/ DispatcherRemoveEventHandler(2)
    \/ RemoveEventHandlerReturn(2)
    \/ \E c \in Chans : FilterReceive(c)
    \/ \E c \in Chans : FilterSend(c)
    \/ \E c \in Chans : FilterClose(c)
    \/ \E c \in Chans : Collect(c)
    \/ \E c \in Chans : ReceiveClosed(c)

\* the scheduler runs every forwarding goroutine that can run; nothing makes
\* the plugin read
DrainSpec ==
    Init /\ [][NextDrain]_vars /\ \A c \in Chans : WF_vars(Forward(c))

\* ---- a consumer that stops reading, or unsubscribes ----------------------------
\* Task 1 is a plugin that calls BroadcastEvent for kind 1 as often as it takes
\* to fill a subscription queue.  Task 2 is the plugin that subscribed to kind
\* 1: it reads its queue while it is in no call, and it either subscribes to
\* kind 2 as well or unsubscribes from kind 1.
NextPressure ==
    \/ made = 0 /\ GetEventHandler(2, 1)
    \/ DispatcherGetEventHandler(2)
    \/ BroadcastEventUpTo(1, 1, 1, 1, ChanCap + 1)
    \/ BroadcastRLock(1)
    \/ BroadcastSend(1)
    \/ BroadcastReturn(1)
    \/ task[2].op = "idle" /\ Receive(1)
    \/ made = 1 /\ ~closed[1] /\ GetEventHandlerCall(2, 2)
    \/ GetEventHandlerLock(2)
    \/ events = {1} /\ RemoveEventHandler(2, 1)
    \/ DispatcherRemoveEventHandler(2)
    \/ RemoveEventHandlerReturn(2)

\* a call that has begun takes its next step as soon as it can
Proceed(t) ==
    \/ Step(t)
    \/ GetEventHandlerLock(t)
    \/ DispatcherRemoveEventHandler(t) \/ RemoveEventHandlerReturn(t)

\* every call in progress is run; nothing makes the plugin read
PressureSpec ==
    Init /\ [][NextPressure]_vars /\ \A t \in Tasks : WF_vars(Proceed(t))

\* ---- handlers per server and per room, and the lines of two servers ------------
NextScoped ==
    \/ \E s \in ScopedServers \cup {AllServers}, k \in ScopedKinds :
          GetServerEventHandler(s, k)
    \/ \E s \in ScopedServers \cup {AllServers}, r \in ScopedRooms :
          GetRoomEventHandler(s, r, 1)
    \/ GetRoomEventHandler(AllServers, AllRooms, 1)
    \/ \E s \in ScopedServers, k \in ScopedKinds, r \in ScopedRooms :
          ScopedCallback(s, k, r)

ScopedSpec == Init /\ [][NextScoped]_vars

\* ---- handlers for all the rooms of a server ---------------------------------------
NextAllRooms ==
    \/ \E s \in ScopedServers, k \in ScopedKinds :
          GetAllRoomsEventHandler(s, k)
    \/ \E s \in ScopedServers, r \in ScopedRooms, k \in ScopedKinds :
          GetRoomEventHandler(s, r, k)
    \/ \E s \in ScopedServers, k \in ScopedKinds, r \in ScopedRooms :
          ScopedCallback(s, k, r)

AllRoomsSpec == Init /\ [][NextAllRooms]_vars

\* ---- shutdown of the bot with scoped dispatchers -----------------------------------
\* handlers are obtained, lines arrive and the main goroutine disconnects once
NextScopedShutdown ==
    \/ \E s \in ScopedServers \cup {AllServers}, k \in ScopedKinds :
          GetServerEventHandler(s, k)
    \/ \E s \in ScopedServers, k \in ScopedKinds, r \in ScopedRooms :
          ScopedCallback(s, k, r)
    \/ ScopedDisconnectLock
    \/ ScopedDisconnectClose
    \/ ScopedDisconnectRemove
    \/ ScopedDisconnectReturn
    \/ \E s \in ScopedServers, k \in ScopedKinds, r \in ScopedRooms :
          ScopedArrive(s, k, r)
    \/ ScopedResume

ScopedShutdownSpec == Init /\ [][NextScopedShutdown]_vars

\* ---- a plugin that unsubscribes with the channel a filter gave it ---------------
\* Task 2 subscribes; a plugin puts FilterRoom on the subscription and reads
\* what it lets through.  To quit, the plugin calls RemoveEventHandler with the
\* channel it reads, which is the one FilterRoom returned; the subscription
\* itself is removed by whoever holds it.
NextQuit ==
    \/ made = 0 /\ GetEventHandler(2, 1)
    \/ DispatcherGetEventHandler(2)
    \/ Filtered = {} /\ Filter(1, "FilterRoom", 1, 1)
    \/ \E r \in FilterRooms : Feed(1, 1, r)
    \/ \E c \in Chans : RemoveEventHandler(2, c)
    \/ DispatcherRemoveEventHandler(2)
    \/ DispatcherRemoveEventHandlerPanic(2)
    \/ RemoveEventHandlerReturn(2)
    \/ \E c \in Chans : FilterReceive(c)
    \/ \E c \in Chans : FilterSend(c)
    \/ \E c \in Chans : FilterSendClosed(c)
    \/ \E c \in Chans : FilterClose(c)
    \/ \E c \in Chans : FilterClosePanic(c)
    \/ \E c \in Chans : Collect(c)
    \/ \E c \in Chans : ReceiveClosed(c)

QuitSpec == Init /\ [][NextQuit]_vars

\* ---- FilterSelfRoom and the two compositions of FilterSelf and FilterRoom --------
\* Task 2 subscribes and, in the end, unsubscribes.  A plugin puts on the
\* subscription FilterSelfRoom(ch, 1, 1), or FilterSelf(FilterRoom(ch, 1, 1)),
\* or FilterRoom(FilterSelf(ch), 1, 1), and then reads what comes through.
\* The lines are of the bot or of someone else, the nick of the bot is fixed.
Composed ==
    \E d \in Filtered :
        /\ Leaf(d)
        /\ \/ stage[d].filter = "FilterSelfRoom"
           \/ parent[d] \in Filtered

NextCompose ==
    \/ made = 0 /\ GetEventHandler(2, 1)
    \/ DispatcherGetEventHandler(2)
    \/ \E f \in {"FilterSelfRoom", "FilterRoom", "FilterSelf"} :
          Filtered = {} /\ Filter(1, f, 1, 1)
    \/ \E d \in Filtered :
          /\ parent[d] \in Raw /\ stage[d].filter = "FilterRoom"
          /\ Filter(d, "FilterSelf", 1, 1)
    \/ \E d \in Filtered :
          /\ parent[d] \in Raw /\ stage[d].filter = "FilterSelf"
          /\ Filter(d, "FilterRoom", 1, 1)
    \/ \E s \in FilterServers, r \in FilterRooms, own \in BOOLEAN :
          FeedLine(1, s, r, own, MaxInput)
    \/ RemoveEventHandler(2, 1)
    \/ DispatcherRemoveEventHandler(2)
    \/ RemoveEventHandlerReturn(2)
    \/ \E c \in Chans : FilterReceive(c)
    \/ \E c \in Chans : FilterSend(c)
    \/ \E c \in Chans : FilterClose(c)
    \/ \E c \in Chans : Composed /\ Collect(c)
    \/ \E c \in Chans : Composed /\ ReceiveClosed(c)

ComposeSpec == Init /\ [][NextCompose]_vars

\* ---- subscriptions of several kinds, and one of them removed --------------------
\* Task 2 is a plugin that subscribes and unsubscribes; task 1 is a plugin
\* that calls BroadcastEvent.  The consumers read when they like.
NextFrame ==
    \/ \E k \in Kinds : GetEventHandler(2, k)
    \/ DispatcherGetEventHandler(2)
    \/ \E k \in Kinds : BroadcastEvent(1, k, 1, 1)
    \/ BroadcastRLock(1)
    \/ BroadcastSend(1)
    \/ BroadcastReturn(1)
    \/ \E c \in Chans : RemoveEventHandler(2, c)
    \/ DispatcherRemoveEventHandler(2)
    \/ DispatcherRemoveEventHandlerPanic(2)
    \/ RemoveEventHandlerReturn(2)
    \/ \E c \in Chans : Receive(c)

FrameSpec == Init /\ [][NextFrame]_vars

\* ---- the dispatchers over the life of the bot ------------------------------------
\* Task 2 is a plugin that subscribes and unsubscribes, task 1 the main
\* goroutine that disconnects; the bot of bot.go hands out handlers of server
\* 1 and disconnects.
NextLazy ==
    \/ \E k \in Kinds : GetEventHandler(2, k)
    \/ DispatcherGetEventHandler(2)
    \/ \E c \in Chans : RemoveEventHandler(2, c)
    \/ DispatcherRemoveEventHandler(2)
    \/ DispatcherRemoveEventHandlerPanic(2)
    \/ RemoveEventHandlerReturn(2)
    \/ DisconnectCall(1)
    \/ DisconnectLock(1)
    \/ DisconnectRemove(1)
    \/ DisconnectClose(1)
    \/ DisconnectClosePanic(1)
    \/ DisconnectQuit(1)
    \/ DisconnectReturn(1)
    \/ \E k \in ScopedKinds : GetServerEventHandler(1, k)
    \/ ScopedDisconnectLock
    \/ ScopedDisconnectClose
    \/ ScopedDisconnectRemove
    \/ ScopedDisconnectReturn

LazySpec == Init /\ [][NextLazy]_vars

\* ---- servers and dispatchers in any order ----------------------------------------
\* Two goroutines add servers and subscribe; nothing is removed and no line
\* arrives.
NextWire ==
    \/ \E t \in Tasks, s \in ServerNames, rec \in Records, ok \in BOOLEAN :
          AddServer(t, s, rec, ok)
    \/ \E t \in Tasks, s \in ServerNames, rec \in Records :
          AddServerPanic(t, s, rec)
    \/ \E t \in Tasks, k \in Kinds : GetEventHandler(t, k)
    \/ \E t \in Tasks : DispatcherGetEventHandler(t)

WireSpec == Init /\ [][NextWire]_vars

\* ---- connections that break, and the shutdown -----------------------------------
\* The main goroutine (task 2) adds the server, the DisconnectPlugin subscribes,
\* and later the main goroutine disconnects.  The client of the server (task
\* 1) reports a connection that broke.
NextReconnect ==
    \/ \E s \in ServerNames, rec \in Records : AddServer(2, s, rec, TRUE)
    \/ made = 0 /\ servers # {} /\ GetEventHandler(2, DISCONNECTED)
    \/ DispatcherGetEventHandler(2)
    \/ \E s \in ServerNames : ConnectionLost(1, s)
    \/ BroadcastRLock(1)
    \/ BroadcastSend(1)
    \/ BroadcastSendClosed(1)
    \/ BroadcastReturn(1)
    \/ \E c \in Chans, ok \in BOOLEAN : DisconnectPluginReceive(c, ok)
    \/ \E c \in Chans : DisconnectPluginBreak(c)
    \/ made > 0 /\ DisconnectCall(2)
    \/ DisconnectLock(2)
    \/ DisconnectRemove(2)
    \/ DisconnectClose(2)
    \/ DisconnectQuit(2)
    \/ DisconnectReturn(2)

ReconnectSpec == Init /\ [][NextReconnect]_vars

\* ---- a game of the RPG plugin -----------------------------------------------------
\* Task 2 is the goroutine of RPGPlugin.game for room 1 of server 1: it
\* subscribes to DISCONNECTED and PART, filters the latter, and on an event
\* of either calls quit(), which starts with
\* bot.RemoveEventHandler(disconnectchan).  Task 1 is the goroutine of the
\* client, which delivers the lines of both servers.
NextGame ==
    \/ GameStart
    \/ game.ph = "setup" /\ made = 0 /\ GetEventHandler(2, DISCONNECTED)
    \/ game.ph = "setup" /\ made = disconnectchan /\ GetEventHandler(2, PART)
    \/ DispatcherGetEventHandler(2)
    \/ game.ph = "setup" /\ made = partsub
          /\ Filter(partsub, "FilterSelfRoom", 1, 1)
    \/ GameLoop
    \/ \E s \in GameServers : GameLine(1, s, DISCONNECTED, NoRoom, FALSE)
    \/ \E s \in GameServers, own \in BOOLEAN : GameLine(1, s, PART, 1, own)
    \/ BroadcastRLock(1)
    \/ BroadcastSend(1)
    \/ BroadcastSendClosed(1)
    \/ BroadcastReturn(1)
    \/ \E c \in Chans : FilterReceive(c)
    \/ \E c \in Chans : FilterSend(c)
    \/ \E c \in Chans : GameReceive(c)
    \/ game.ph = "quit" /\ RemoveEventHandler(2, disconnectchan)
    \/ DispatcherRemoveEventHandler(2)
    \/ DispatcherRemoveEventHandlerPanic(2)

GameSpec == Init /\ [][NextGame]_vars

\* ---- the registry of servers ---------------------------------------------------
\* The main goroutine adds servers, with any record and as often as it likes,
\* subscribes and disconnects; no line arrives meanwhile.
NextRegistry ==
    \/ \E s \in ServerNames, rec \in Records, ok \in BOOLEAN :
          AddServer(2, s, rec, ok)
    \/ \E s \in ServerNames, rec \in Records : AddServerPanic(2, s, rec)
    \/ \E k \in Kinds : GetEventHandler(2, k)
    \/ DispatcherGetEventHandler(2)
    \/ DisconnectCall(2)
    \/ DisconnectLock(2)
    \/ DisconnectRemove(2)
    \/ DisconnectClose(2)
    \/ DisconnectQuit(2)
    \/ DisconnectReturn(2)

RegistrySpec == Init /\ [][NextRegistry]_vars

\* ---- properties -----------------------------------------------------------
\* the channels for which Bot.RemoveEventHandler has returned
Removed == {c \in Chans : removedAt[c] >= 0}

\* the channels a Broadcast call in its range has still to send to
Pending(t) == (IF task[t].cur = 0 THEN {} ELSE {task[t].cur}) \cup task[t].todo

InRange(t) == task[t].op = "broadcast" /\ task[t].ph \in {"send", "ret"}

\* C1: a Broadcast call enqueues its event exactly once into every channel of
\* its dispatcher that it has passed and into no other channel; when it
\* returns it has passed them all, so each of the n subscriptions holds the
\* event once.
FanOutComplete ==
    \A t \in Tasks :
        InRange(t) =>
            /\ Pending(t) \subseteq channels[task[t].k]
            /\ task[t].ph = "ret" => Pending(t) = {}
            /\ \A c \in Chans :
                 task[t].sent[c] =
                     IF c \in channels[task[t].k] \ Pending(t) THEN 1 ELSE 0

\* a Broadcast call is about to return from a dispatcher with two subscriptions
FanOutWitness ==
    \E t \in Tasks :
        /\ InRange(t) /\ task[t].ph = "ret"
        /\ Cardinality(channels[task[t].k]) = 2
        /\ \A c \in channels[task[t].k] : task[t].sent[c] = 1 /\ ~closed[c]

\* C2: a channel for which RemoveEventHandler has returned is in no
\* dispatcher's set and is no target of any Broadcast call in its range, so
\* no Broadcast enqueues into it or sends on it.
NoDeliveryAfterUnsubscribe ==
    \A s \in Removed :
        /\ \A k \in Kinds : s \notin channels[k]
        /\ \A t \in Tasks : InRange(t) => s \notin Pending(t) /\ task[t].sent[s] = 0

\* RemoveEventHandler has returned for one channel and a later Broadcast on
\* the same dispatcher has delivered to the other
UnsubscribeWitness ==
    \E s \in Removed, t \in Tasks, c \in Chans :
        /\ InRange(t) /\ task[t].ph = "ret"
        /\ task[t].ev.id > removedAt[s]
        /\ c # s /\ task[t].sent[c] = 1

\* C3: no Broadcast sends on a channel that has been closed.
NoSendOnClosed == crashed # "send on closed channel"

\* C4: no channel is closed twice.
NoDoubleClose == crashed # "close of closed channel"

\* C5: two events that two subscribers of a dispatcher both hold are held in
\* the same relative order, which is the order of the Broadcast calls.
Before(q, a, b) ==
    \E i, j \in 1..Len(q) : i < j /\ q[i].id = a /\ q[j].id = b

DeliveryInCallOrder ==
    \A c \in Chans, a, b \in 1..calls :
        Before(queue[c], a, b) => a < b

\* C7: when Disconnect is about to return, every dispatcher's set is empty.
SetsEmptyAfterDisconnect ==
    \A t \in Tasks :
        task[t].op = "disconnect" /\ task[t].ph = "wait" =>
            \A k \in events : channels[k] = {}

\* C9: Disconnect removes every callback, then closes every dispatcher, then
\* quits every connection, then waits: while it closes, quits or waits no
\* callback is registered; while it quits or waits every subscription of every
\* dispatcher is closed; while it waits no connection is still up; and before
\* it has removed the callbacks it has closed nothing.
ClosedBy(t) == events \ Pending(t)

DisconnectOrder ==
    \A t \in Tasks :
        task[t].op = "disconnect" =>
            /\ task[t].ph \in {"close", "quit", "wait"} => handlers = {}
            /\ task[t].ph \in {"quit", "wait"} =>
                   \A k \in events : \A c \in channels[k] : closed[c]
            /\ task[t].ph = "wait" =>
                   \A s \in servers : conn[s] # "connected"
            /\ task[t].ph = "close" =>
                   \A k \in ClosedBy(t) : \A c \in channels[k] : closed[c]

\* Disconnect has removed a callback, closed a subscription and quit a
\* connection, and waits
DisconnectOrderWitness ==
    \E t \in Tasks :
        /\ task[t].op = "disconnect" /\ task[t].ph = "wait"
        /\ removers # {}
        /\ \E k \in events : channels[k] # {}
        /\ \E s \in servers : conn[s] = "quit"

\* C10: AddServer for a new id completes normally when dispatchers exist.
AddServerCompletes == crashed # "nil pointer dereference"

\* C6: a call of Disconnect eventually returns.
DisconnectReturns ==
    \A t \in Tasks : (task[t].op = "disconnect") ~> (task[t].op = "idle")

\* C8: once Disconnect has closed every dispatcher, every channel made by then,
\* a dispatcher's or a filter's, is eventually closed, and the plugin task that
\* reads it has seen the closure and left.
DispatchersClosed ==
    \E t \in Tasks : task[t].op = "disconnect" /\ task[t].ph \in {"quit", "wait"}

Drained(c) == closed[c] /\ (Leaf(c) => c \in observed)

ShutdownCascades ==
    \A c \in Chans : (DispatchersClosed /\ c \in 1..made) ~> Drained(c)

\* what holds of the shutdown instead: the channels are drained unless a send
\* on a closed channel has ended the process first
CascadesUnlessPanic ==
    \A c \in Chans :
        (DispatchersClosed /\ c \in 1..made) ~> (Drained(c) \/ ~Running)

\* C11: the step that creates the dispatcher of a kind registers that kind's
\* callback on every server already in the registry, and a registered callback
\* goes away only when Disconnect removes it; so from the first
\* GetEventHandler(K) on, a line of kind K on a server added earlier starts a
\* Broadcast on K's dispatcher, with no reconnection.
RetroactiveWiring ==
    [][/\ \A k \in events' \ events :
             \A s \in servers : <<s, k>> \in handlers'
       /\ ~(handlers \subseteq handlers') =>
             \E t \in Tasks : task[t].op = "disconnect" /\ task[t].ph = "remove"]_vars

\* a line on a server that was added before any dispatcher existed has been
\* delivered to a subscription by the server's callback
RetroactiveWitness ==
    \E t \in Tasks, c \in Chans :
        /\ InRange(t) /\ task[t].ph = "ret" /\ task[t].lk = "none"
        /\ task[t].ev.server \in servers
        /\ c \in channels[task[t].k] /\ task[t].sent[c] = 1

\* C12: once an id is in the map, no step changes the record stored for it or
\* calls Connect() for it again, and a call of AddServer with that id returns
\* the stored record and a nil error, registers no callback and leaves the
\* map as it was.
IdempotentAddServer ==
    [][\A s \in servers :
          /\ s \in servers'
          /\ stored'[s] = stored[s]
          /\ connects'[s] = connects[s]
          /\ (ret' # ret /\ ret'.server = s) =>
                /\ ret'.rec = stored[s]
                /\ ret'.err = "nil"
                /\ UNCHANGED <<servers, stored, conn, connects, removers,
                               handlers>>]_vars

\* AddServer was called with a second record for a connected id and returned
\* the first
IdempotentWitness ==
    \E s \in servers :
        /\ ret.server = s /\ ret.arg # stored[s] /\ ret.rec = stored[s]
        /\ conn[s] = "connected" /\ connects[s] = 1

\* C13: an id whose Connect() failed is not in the map.
NoPartialRegistration ==
    \A s \in ServerNames : conn[s] = "failed" => s \notin servers

\* C14: ConnectPlugin runs joinAll at most once for a server.
ConnectSetupOnce == \A s \in ServerNames : joins[s] <= 1

\* the goroutine has settled what to do with the event it holds
Settled == wph \in {"send", "drop"}

\* C15: under rules that do not change while an event is looked at, the
\* goroutine forwards the event iff IsForcedServer or IsForcedRoom holds of its
\* server and room, or neither IsBannedServer nor IsBannedRoom does.
PolicyDecision ==
    Settled =>
        (wph = "send" <=>
            \/ IsForcedServer(wev.server)
            \/ IsForcedRoom(wev.server, wev.room)
            \/ ~(IsBannedServer(wev.server) \/ IsBannedRoom(wev.server, wev.room)))

\* an event is dropped for a rule on its room alone
PolicyDecisionWitness ==
    /\ wph = "drop"
    /\ ~IsBannedServer(wev.server)
    /\ isBannedRoom(wev.server, wev.room)

\* the rules that have been added and match a server and a room, in any of
\* their wildcard forms
Matches(call, ops, n, r) ==
    /\ call.op \in ops
    /\ call.server \in {n, ALL_SERVERS}
    /\ call.op \in {"AddBannedRoom", "AddForcedRoom"} => call.room \in {r, ALL_ROOMS}

ForcedRule(n, r) ==
    \E call \in added : Matches(call, {"AddForcedServer", "AddForcedRoom"}, n, r)

BannedRule(n, r) ==
    \E call \in added : Matches(call, {"AddBannedServer", "AddBannedRoom"}, n, r)

\* C16: an event that a forced rule matches is forwarded, whatever banned
\* rules there are.
ForcedOverridesBanned ==
    Settled /\ ForcedRule(wev.server, wev.room) => wph = "send"

\* an event is forwarded that a rule forces for its room and a rule bans for
\* every server
ForcedWitness ==
    /\ wph = "send"
    /\ [op |-> "AddForcedRoom", server |-> wev.server, room |-> wev.room] \in added
    /\ [op |-> "AddBannedServer", server |-> ALL_SERVERS, room |-> 0] \in added
    /\ ~IsForcedServer(wev.server)

\* C17: with AddBannedRoom(N, ALL_ROOMS) and AddForcedRoom(N, R) and no other
\* rule, an event of N is forwarded iff its room is R.
PrecedenceRules(n, r) ==
    {[op |-> "AddBannedRoom", server |-> n, room |-> ALL_ROOMS],
     [op |-> "AddForcedRoom", server |-> n, room |-> r]}

PolicyPrecedence ==
    \A n \in ServerNames, r \in Rooms :
        Settled /\ added = PrecedenceRules(n, r) /\ wev.server = n =>
            (wph = "send" <=> wev.room = r)

\* under these two rules an event of another room of N is dropped
PrecedenceWitness ==
    \E n \in ServerNames, r \in Rooms :
        /\ added = PrecedenceRules(n, r)
        /\ wph = "drop" /\ wev.server = n /\ wev.room # r

\* C18: IsBannedRoom(n, r) holds iff one of the rules (n, r), (n, ALL_ROOMS),
\* (ALL_SERVERS, r), (ALL_SERVERS, ALL_ROOMS) has been added, IsBannedServer(n)
\* iff rule n or rule ALL_SERVERS has, and likewise for the forced rules.
Has(op, n, r) == [op |-> op, server |-> n, room |-> r] \in added

WildcardMatching ==
    \A n \in ServerNames, r \in Rooms :
        /\ IsBannedRoom(n, r) <=>
              \/ Has("AddBannedRoom", n, r)
              \/ Has("AddBannedRoom", n, ALL_ROOMS)
              \/ Has("AddBannedRoom", ALL_SERVERS, r)
              \/ Has("AddBannedRoom", ALL_SERVERS, ALL_ROOMS)
        /\ IsForcedRoom(n, r) <=>
              \/ Has("AddForcedRoom", n, r)
              \/ Has("AddForcedRoom", n, ALL_ROOMS)
              \/ Has("AddForcedRoom", ALL_SERVERS, r)
              \/ Has("AddForcedRoom", ALL_SERVERS, ALL_ROOMS)
        /\ IsBannedServer(n) <=>
              Has("AddBannedServer", n, 0) \/ Has("AddBannedServer", ALL_SERVERS, 0)
        /\ IsForcedServer(n) <=>
              Has("AddForcedServer", n, 0) \/ Has("AddForcedServer", ALL_SERVERS, 0)

\* three rules have been added in one wildcard form each, and match
WildcardWitness ==
    \E n \in ServerNames, r \in Rooms :
        /\ added = {[op |-> "AddBannedRoom", server |-> ALL_SERVERS, room |-> r],
                    [op |-> "AddForcedRoom", server |-> n, room |-> ALL_ROOMS],
                    [op |-> "AddBannedServer", server |-> ALL_SERVERS, room |-> 0]}
        /\ IsBannedRoom(n, r) /\ IsForcedRoom(n, r)
        /\ IsBannedServer(n) /\ ~IsForcedServer(n)

\* C19: what the goroutine does with an event is what its condition comes to
\* under rules that were current at some moment since it read the event.
DecisionOnCurrentRules ==
    /\ wph = "send" => TRUE \in seen
    /\ wph = "drop" => FALSE \in seen

\* the events of the input that a FilterRoom goroutine has dealt with: all but
\* those still in the buffer of the channel it reads and the one it holds
Dealt(d) ==
    SubSeq(fin, 1, Len(fin) - Len(queue[parent[d]])
                     - (IF fph[d] = "send" THEN 1 ELSE 0))

RoomOf(d, input) ==
    LET Match(e) == e.server = stage[d].server /\ e.room = stage[d].room
    IN  SelectSeq(input, Match)

\* C20: what FilterRoom(sub, n, r) has put on its channel, received or still
\* buffered, is the events of server n and room r among the input it has dealt
\* with, in the order of the input, each once; when it has closed its channel
\* that is the whole input.
FilterCorrect ==
    \A d \in Filtered :
        /\ fout \o queue[d] = RoomOf(d, Dealt(d))
        /\ fph[d] = "done" => Dealt(d) = fin

\* FilterRoom has closed its channel having let through two of three events
FilterWitness ==
    \E d \in Filtered :
        /\ fph[d] = "done" /\ d \in observed
        /\ Len(fin) = MaxInput /\ Len(fout) = 2
        /\ \E i \in 1..Len(fin) :
              fin[i].server = stage[d].server /\ fin[i].room # stage[d].room

\* C21: once the channel a filter reads is closed, the forwarding goroutine
\* closes the filtered channel and returns, whether or not anyone reads the
\* filtered channel.
FilterTerminates ==
    \A d \in Chans :
        (d \in Filtered /\ closed[parent[d]]) ~> (d \in Filtered /\ fph[d] = "done")

\* the events a forwarding goroutine holds: the one it is about to send
Held(d) == IF fph[d] = "send" THEN 1 ELSE 0

\* C23: no queue, of a dispatcher or of a filter, ever holds more than 10
\* events, and a full queue makes its producer wait: every event sent is in a
\* queue, in the hands of the filter or with the consumer, none is dropped.
BoundedQueues ==
    /\ \A c \in Chans : Len(queue[c]) <= ChanCap
    /\ \A c \in Raw : Filtered = {} => Len(fin) = Len(queue[c])
    /\ \A d \in Filtered :
          Len(fin) = Len(queue[parent[d]]) + Held(d) + Len(queue[d]) + Len(fout)

\* the filtered queue is full, the filter waits with one more event and the
\* queue of the subscription is full behind it
BoundedWitness ==
    \E d \in Filtered :
        /\ Len(queue[d]) = ChanCap /\ fph[d] = "send"
        /\ Len(queue[parent[d]]) = ChanCap /\ Len(fin) = 2 * ChanCap + 1

\* C22: a consumer that has stopped reading a subscription of kind 1 keeps no
\* call of GetEventHandler for kind 2 from returning.
BackpressureLocal ==
    \A t \in Tasks :
        (task[t].op = "get" /\ task[t].k = 2) ~> (task[t].op = "idle")

\* C27: a call of RemoveEventHandler by the consumer of a subscription returns,
\* also when a Broadcast waits, under the read lock of the dispatcher, for
\* room in the queue of that subscription.
UnsubscribeReturns ==
    \A t \in Tasks : (task[t].op = "remove") ~> (task[t].op = "idle")

\* how often a line is in what a consumer has received
Count(seq, x) == Cardinality({p \in 1..Len(seq) : seq[p] = x})

\* the line is one of kind K on a server that the handler was obtained for,
\* and it arrived after the handler was obtained
Due(sub, j) ==
    /\ j > sub.since
    /\ scopedLines[j].kind = sub.kind
    /\ sub.server \in {AllServers, scopedLines[j].server}

\* C24: a consumer of GetServerEventHandler(AllServers, K) or
\* GetServerEventHandler(N, K) receives every line of kind K on N once; it
\* receives no line of another kind or of a server M other than N.
ScopedDelivery ==
    \A c \in 1..Len(scopedSubs) : \A j \in 1..Len(scopedLines) :
        scopedSubs[c].map = "server" =>
            Count(scopedGot[c], j) = (IF Due(scopedSubs[c], j) THEN 1 ELSE 0)

\* a line of server 1 has been handled: the handler for all servers and the
\* handler for server 1 have it, the handler for server 2 has nothing
ScopedWitness ==
    /\ Len(scopedSubs) = 3 /\ Len(scopedLines) >= 1
    /\ scopedLines[1].server = 1
    /\ \E a, b, c \in 1..3 :
          /\ \A x \in {a, b, c} : /\ scopedSubs[x].map = "server"
                                  /\ scopedSubs[x].kind = scopedLines[1].kind
          /\ scopedSubs[a].server = AllServers /\ scopedGot[a] = <<1>>
          /\ scopedSubs[b].server = 1 /\ scopedGot[b] = <<1>>
          /\ scopedSubs[c].server = 2 /\ scopedGot[c] = <<>>

\* C25: with AddBannedRoom(N, ALL_ROOMS) and no rule that bans the server N,
\* an event of N whose target is no room is forwarded.
ServerLevelEvents ==
    \A n \in ServerNames :
        ( /\ Settled /\ wev.server = n /\ wev.room = NoRoom
          /\ Has("AddBannedRoom", n, ALL_ROOMS)
          /\ ~Has("AddBannedServer", n, 0)
          /\ ~Has("AddBannedServer", ALL_SERVERS, 0) )
        => wph = "send"

\* C26: the range of ConnectPlugin over the map of servers, like every other
\* access to the state of the bot, is made with the lock of the bot held: at
\* the step that reads the map the bot has a reader.
LockedAccess ==
    [][(cp = "scan" /\ (cp' = "handle" \/ crashed' \in RaceOutcomes))
          => botReaders > 0]_vars

\* C28: the channel a filter returns is closed by its forwarding goroutine and
\* by nobody else, and the goroutine never sends on it or closes it after
\* someone else has closed it.
SingleCloser ==
    /\ \A d \in Filtered : closed[d] => fph[d] = "done"
    /\ crashed = ""

\* C29: a subscription is in the set of at most one dispatcher, and a step of
\* RemoveEventHandler(s) takes nothing but s out of any set, leaves the set of
\* every dispatcher that does not hold s as it is, and leaves every queue and
\* every other channel as it is.
SubscriptionFrame ==
    /\ [](\A c \in Chans : Cardinality({k \in Kinds : c \in channels[k]}) <= 1)
    /\ [][\A t \in Tasks :
            (task'[t] # task[t] /\ "remove" \in {task[t].op, task'[t].op}) =>
                LET s == IF task[t].op = "remove" THEN task[t].ch
                         ELSE task'[t].ch
                IN  /\ \A k \in Kinds :
                          /\ channels'[k] \subseteq channels[k]
                          /\ channels[k] \ channels'[k] \subseteq {s}
                          /\ s \notin channels[k] => channels'[k] = channels[k]
                    /\ queue' = queue
                    /\ \A c \in Chans \ {s} : closed'[c] = closed[c]]_vars

\* RemoveEventHandler has closed a subscription and taken it out of the set of
\* its dispatcher; the other dispatcher still has its subscription and the
\* event in its queue
FrameWitness ==
    \E t \in Tasks, k \in Kinds :
        /\ task[t].op = "remove" /\ closed[task[t].ch]
        /\ \A j \in Kinds : task[t].ch \notin channels[j]
        /\ \E c \in channels[k] : ~closed[c] /\ queue[c] # <<>>

\* the lines of the bot in room 1 of server 1 among the input
SelfRoomOf(input) ==
    LET Match(e) == e.self /\ e.server = 1 /\ e.room = 1
    IN  SelectSeq(input, Match)

\* C30: FilterSelfRoom(ch, n, r), FilterSelf(FilterRoom(ch, n, r)) and
\* FilterRoom(FilterSelf(ch), n, r) give the same output for the same input:
\* what each has put out so far is the beginning of the lines of the bot in
\* room r of n among the input, and all of them when it has closed its output.
ComposedFilters ==
    \A d \in Filtered :
        (Leaf(d) /\ Composed) =>
            LET out == fout \o queue[d]
                all == SelfRoomOf(fin)
            IN  /\ Len(out) <= Len(all)
                /\ out = SubSeq(all, 1, Len(out))
                /\ fph[d] = "done" => out = all

\* a composition of two filters has closed its output, having let through one
\* of three lines and dropped one at each of its two filters
ComposedWitness ==
    \E d \in Filtered :
        /\ Leaf(d) /\ parent[d] \in Filtered
        /\ fph[d] = "done" /\ d \in observed
        /\ Len(fin) = MaxInput /\ Len(fout) = 1
        /\ \E i, j \in 1..Len(fin) :
              /\ fin[i].self /\ ~(fin[i].server = 1 /\ fin[i].room = 1)
              /\ ~fin[j].self /\ fin[j].server = 1 /\ fin[j].room = 1

\* C38: a consumer of GetAllRoomsEventHandler(N, K) receives every line of
\* kind K that arrives on N after the handler was obtained, whatever its room.
AllRoomsDelivery ==
    \A c \in 1..Len(scopedSubs) : \A j \in 1..Len(scopedLines) :
        ( /\ scopedSubs[c].map = "room" /\ scopedSubs[c].room = AllRooms
          /\ scopedSubs[c].server \in ScopedServers
          /\ j > scopedSubs[c].since
          /\ scopedLines[j].kind = scopedSubs[c].kind
          /\ scopedLines[j].server = scopedSubs[c].server )
        => Count(scopedGot[c], j) = 1

\* C35: in the bot with scoped dispatchers Disconnect removes the callbacks
\* before it closes a dispatcher: whenever the dispatchers are closed no
\* callback is registered.
ScopedDisconnectOrder == scopedDown.closed => scopedDown.removed

\* C34: a dispatcher is created by the first GetEventHandler of its kind and
\* by nothing else, it is wired to the servers then and not again, every later
\* GetEventHandler of the kind adds its subscription to the set the dispatcher
\* already has, and no step takes a dispatcher away or takes out of its set a
\* subscription other than the one RemoveEventHandler was called with; the
\* handlers of a dispatcher of bot.go are only ever appended to.
LazyDispatchers ==
    [][/\ events \subseteq events'
       /\ \A k \in events' \ events :
             /\ channels[k] = {}
             /\ \E t \in Tasks : /\ task[t].op = "idle"
                                 /\ task'[t].op = "get" /\ task'[t].k = k
       /\ \A k \in events :
             /\ \A c \in channels[k] \ channels'[k] :
                   \E t \in Tasks : task[t].op = "remove" /\ task[t].ch = c
             /\ (\E t \in Tasks : task[t].op = "idle" /\ task'[t].op = "get"
                                   /\ task'[t].k = k)
                   => channels'[k] = channels[k] /\ handlers' = handlers
       /\ \A t \in Tasks :
             (task[t].op = "get" /\ task[t].ph = "lock" /\ task'[t].op = "idle")
                 => /\ made' = made + 1
                    /\ channels'[task[t].k] = channels[task[t].k] \cup {made'}
       /\ Len(scopedSubs') >= Len(scopedSubs)
       /\ SubSeq(scopedSubs', 1, Len(scopedSubs)) = scopedSubs]_vars

\* a dispatcher has the subscriptions of two requests, and Disconnect has
\* closed them and returned; a dispatcher of bot.go has two handlers
LazyWitness ==
    /\ \E k \in events :
          /\ Cardinality(channels[k]) >= 2
          /\ \A c \in channels[k] : closed[c]
    /\ \A t \in Tasks : task[t].op = "idle"
    /\ \E i, j \in 1..Len(scopedSubs) :
          i < j /\ Key(scopedSubs[i]) = Key(scopedSubs[j])
    /\ scopedDown.ph = "done"

\* C36: every server of the registry has its callback registered for every
\* kind that has a dispatcher.
OneCallback == \A s \in servers : \A k \in events : <<s, k>> \in handlers

NoReconnect ==
    [][\A s \in ServerNames : conn[s] = "quit" => connects'[s] = connects[s]]_vars

\* the maps that the calls of Add... leave in settings that were empty
RulesOf(cs) ==
    [bannedServers |->
        {c.server : c \in {x \in cs : x.op = "AddBannedServer"}},
     bannedRooms |->
        [s \in ServerKeys |->
            {c.room : c \in {x \in cs : x.op = "AddBannedRoom"
                                             /\ x.server = s}}],
     forcedServers |->
        {c.server : c \in {x \in cs : x.op = "AddForcedServer"}},
     forcedRooms |->
        [s \in ServerKeys |->
            {c.room : c \in {x \in cs : x.op = "AddForcedRoom"
                                             /\ x.server = s}}]]

\* C33: the maps of a PluginSettings, and so the result of its Is... queries,
\* are those its own Add... calls have left, whatever has been added to
\* another PluginSettings; the events forwarded through a subscription it
\* wraps are those its own maps let through; and a call of Add... on the
\* other changes none of this.
PolicyIsolation ==
    /\ [](/\ ThisSettings = RulesOf(added)
          /\ Settled =>
                (wph = "send" <=> Condition(wev.server, wev.room)))
    /\ [][settingsA' # settingsA =>
            /\ ThisSettings' = ThisSettings
            /\ \A n \in ServerNames, r \in Rooms \cup {NoRoom} :
                  Condition(n, r)' = Condition(n, r)
            /\ UNCHANGED <<wph, wev>>]_vars

\* an event is forwarded of a server that the other PluginSettings bans and
\* forces no room of, while the wrapping one has a rule of its own
IsolationWitness ==
    /\ wph = "send"
    /\ wev.server \in settingsA.bannedServers
    /\ settingsA.forcedServers = {}
    /\ \A s \in ServerKeys : settingsA.forcedRooms[s] = {}
    /\ added # {}

\* C31: a game that has received a part or a disconnect ends: its quit() does
\* not end the process instead.
GameQuitCompletes == game.ph = "quit" => crashed = ""

\* C39: the game of a room of server 1 calls quit() for an event of server 1
\* alone.
GameScoped == game.ph = "quit" => game.why.server = 1

\* C32: once the game has stopped, none of the subscriptions it got from
\* GetEventHandler is in the set of a dispatcher.
GameNoLeak ==
    (game.ph = "quit" /\ crashed # "") =>
        \A k \in events : channels[k] \cap {disconnectchan, partsub} = {}

====
